---- MODULE Spec2Model ----
(***************************************************************************)
(* A model of tcp_killer (src/tcp_killer.py): the lsof parser              *)
(* _find_socket_fds, the driver tcp_kill, the injection session of         *)
(* _shutdown_sockfd and the injected payload shutdownSocket.               *)
(*                                                                         *)
(* Python values: an optional value is None (the empty tuple) or Some(v)   *)
(* (a one-element tuple); text is a TLA+ string, sliced with SubSeq.       *)
(***************************************************************************)
EXTENDS Integers, Sequences, FiniteSets, TLC

VARIABLES
    \* ---- _find_socket_fds (src/tcp_killer.py:168-213)
    local_addr, local_port, remote_addr, remote_port,  \* the four criteria
    output,        \* lsof's standard output, split into lines
    returncode,    \* lsof's exit status
    ppc,           \* position in _find_socket_fds
    caller,        \* who called _find_socket_fds: "direct" or "tcp_kill"
    li,            \* lines of output consumed by the for loop
    pid, fd, uid,  \* the loop's accumulators
    connections,   \* the list being built, then the returned list
    origin,        \* history: for each element of connections, the index of
                   \* the output line on which it was appended
    \* ---- tcp_kill (src/tcp_killer.py:216-264)
    platform,      \* platform.system()
    euid,          \* what os.geteuid() returned: None until it is called
    verbose,
    kpc,           \* position in tcp_kill
    kill_pid,      \* tcp_kill's local pid
    kill_sockfd,   \* tcp_kill's local sockfd
    \* ---- _shutdown_sockfd (src/tcp_killer.py:267-316)
    spc,           \* position in _shutdown_sockfd
    scaller,       \* who called _shutdown_sockfd: "direct" or "tcp_kill"
    target_pid,    \* its parameter pid
    sockfd,        \* its parameter sockfd
    js_error,      \* the dictionary js_error: None, or Some(js_error["error"])
    result,        \* its local result: None until the invocation returned
    pending,       \* the exception in flight while the finally clause runs
    listener,      \* TRUE once script.on("message", on_message) has run
    calls,         \* the injection backend's log: the controller's calls
                   \* and how each blocking call ended
    \* ---- the target process and the message channel
    alive,         \* the target process has not exited
    modules,       \* the modules loaded in the target, in load order
    channel,       \* what the target has sent and the controller has not
                   \* yet received, oldest first
    \* ---- the payload shutdownSocket (src/tcp_killer.py:46-144)
    jpc,           \* position in shutdownSocket
    shutdown_func, \* None (null), or Some(address)
    probe,         \* the index i of the loop over possibleModules
    jresult,       \* the payload's local result
    fault,         \* the message of the exception caught by the outer catch
    tcalls,        \* the log of the calls the payload made in the target
    \* ---- the outcome of the operation
    exc,           \* the exception that left the entry point, or None
    printed,       \* what the controller printed, in order
    \* ---- the command-line program (src/tcp_killer.py:319-372)
    cpc,           \* position in the program: "unused" when an entry point
                   \* is called from python
    argv,          \* the command line: None until it is read
    status,        \* the exit status of the process: None while it runs
    \* ---- the sessions of the injection backend
    operation,     \* the ordinal of the current call of _shutdown_sockfd
    session,       \* its local session: None, or Some(session id)
    opened,        \* history: the sessions frida.attach has created, each
                   \* with the operation it was created for
    \* ---- the viewer (src/tcp_killer_gui.py)
    gpc,           \* what the main thread does: "unused" outside the viewer,
                   \* "idle" in its event loop, "shutdown" inside
                   \* _shutdown_sockfd, "dialog" in a message box,
                   \* "question" in the confirmation box, and in closeEvent
                   \* "quit" before monitor_thread.quit(), "wait" inside
                   \* monitor_thread.wait(), "closed" after it
    running,       \* ConnectionMonitor.running
    events,        \* the signals queued for the main thread, oldest first
    table,         \* ConnectionTableWidget: connections and connection_map
    status_bar,    \* the message of the status bar
    dialog,        \* the message box on screen, or None
    before,        \* history: the table and the length of the queue when
                   \* the current close_connection was requested
    refreshed,     \* history: the last close_connection called
                   \* manual_refresh
    auto_refresh,  \* the window's auto_refresh
    confirm_close, \* the window's confirm_close
    count_label,   \* the text of the count label
    closing,       \* close_connection's argument while it runs, else None
    reply,         \* close_connection's local reply, as its last call left
                   \* it: None when the question was not asked
    skipped,       \* history: the slot returned early on the last list the
                   \* worker delivered
    wpc            \* what the worker thread does: "none" outside the viewer,
                   \* "started" before start_monitoring runs in it, "loop"
                   \* inside its loop, "exec" in the thread's event loop
                   \* after it, "finished" once the thread has ended

parseVars == <<local_addr, local_port, remote_addr, remote_port, output,
               returncode, ppc, caller, li, pid, fd, uid, connections, origin>>

killVars == <<platform, euid, verbose, kpc, kill_pid, kill_sockfd>>

sessVars == <<spc, scaller, target_pid, sockfd, js_error, result, pending,
              listener, calls>>

targetVars == <<alive, modules, channel>>

payloadVars == <<jpc, shutdown_func, probe, jresult, fault, tcalls>>

cliVars == <<cpc, argv, status>>

opVars == <<operation, session, opened>>

guiVars == <<gpc, running, events, table, status_bar, dialog, before,
             refreshed>>

windowVars == <<auto_refresh, confirm_close, count_label, closing, reply,
                skipped, wpc>>

appVars == <<cliVars, opVars, guiVars, windowVars>>

vars == <<parseVars, killVars, sessVars, targetVars, payloadVars, exc,
          printed, appVars>>

----------------------------------------------------------------------------
\* Bounds of the model.
MaxLines == 4

----------------------------------------------------------------------------
\* Python values.
None == <<>>
Some(v) == <<v>>
Val(o) == o[1]

\* Python truthiness of an optional integer: None and 0 are falsy.
Truthy(o) == o # None /\ Val(o) # 0

----------------------------------------------------------------------------
\* Text.
Char(s, i) == SubSeq(s, i, i)

StartsWith(s, pre) == Len(s) >= Len(pre) /\ SubSeq(s, 1, Len(pre)) = pre

\* The places at which sub occurs in s.
Occurrences(s, sub) ==
    {i \in 1..(Len(s) - Len(sub) + 1) : SubSeq(s, i, i + Len(sub) - 1) = sub}

Contains(s, sub) == Occurrences(s, sub) # {}

SetMin(S) == CHOOSE x \in S : \A y \in S : x <= y
SetMax(S) == CHOOSE x \in S : \A y \in S : x >= y

DigitChars == <<"0", "1", "2", "3", "4", "5", "6", "7", "8", "9">>

IsDigit(c) == \E d \in 1..10 : DigitChars[d] = c

DigitVal(c) == (CHOOSE d \in 1..10 : DigitChars[d] = c) - 1

AllDigits(s) == Len(s) > 0 /\ \A i \in 1..Len(s) : IsDigit(Char(s, i))

\* int(s) accepts an optional sign followed by decimal digits (surrounding
\* white space and digit-group underscores, which lsof never prints, are not
\* modelled); anything else raises ValueError.
IsInt(s) ==
    IF Len(s) > 0 /\ Char(s, 1) \in {"+", "-"}
    THEN AllDigits(SubSeq(s, 2, Len(s)))
    ELSE AllDigits(s)

RECURSIVE NatOf(_)
NatOf(s) ==
    IF Len(s) = 0 THEN 0
    ELSE 10 * NatOf(SubSeq(s, 1, Len(s) - 1)) + DigitVal(Char(s, Len(s)))

IntOf(s) ==
    IF Char(s, 1) = "-" THEN 0 - NatOf(SubSeq(s, 2, Len(s)))
    ELSE IF Char(s, 1) = "+" THEN NatOf(SubSeq(s, 2, Len(s)))
    ELSE NatOf(s)

\* str.split(sep): the pieces of s between the non-overlapping occurrences
\* of sep, found left to right.
RECURSIVE Split(_, _)
Split(s, sep) ==
    IF Occurrences(s, sep) = {} THEN <<s>>
    ELSE LET i == SetMin(Occurrences(s, sep))
         IN  <<SubSeq(s, 1, i - 1)>>
             \o Split(SubSeq(s, i + Len(sep), Len(s)), sep)

\* Mutant of RSplit1: split once, at the first occurrence of sep.
SplitAtFirst(s, sep) ==
    IF Occurrences(s, sep) = {} THEN <<s>>
    ELSE LET i == SetMin(Occurrences(s, sep))
         IN  <<SubSeq(s, 1, i - 1), SubSeq(s, i + Len(sep), Len(s))>>

\* str.rsplit(sep, 1): split once, at the last occurrence of sep.
RSplit1(s, sep) ==
    IF Occurrences(s, sep) = {} THEN <<s>>
    ELSE LET i == SetMax(Occurrences(s, sep))
         IN  <<SubSeq(s, 1, i - 1), SubSeq(s, i + Len(sep), Len(s))>>

----------------------------------------------------------------------------
\* ConnectionInfo.__init__
ConnectionInfo(lip, lport, rip, rport, p, f, u) ==
    [local_ip |-> lip, local_port |-> lport, remote_ip |-> rip,
     remote_port |-> rport, pid |-> p, fd |-> f, uid |-> u]

\* Mutant of MatchCriteria: one criterion that holds is enough.
MatchCriteriaAny(crit, lip, lps, rip, rps) ==
    IF \/ (crit.local_addr = None /\ crit.local_port = None
           /\ crit.remote_addr = None /\ crit.remote_port = None)
       \/ (crit.local_addr # None /\ Some(lip) = crit.local_addr)
       \/ (crit.local_port # None /\ IsInt(lps)
           /\ Some(IntOf(lps)) = crit.local_port)
       \/ (crit.remote_addr # None /\ Some(rip) = crit.remote_addr)
       \/ (crit.remote_port # None /\ IsInt(rps)
           /\ Some(IntOf(rps)) = crit.remote_port)
    THEN "yes" ELSE "no"

\* The filter of _find_socket_fds. Python's "and"/"or" short-circuit, so a
\* port text is converted only when the conjuncts before it held and its
\* criterion is given. The result is "raise", "yes" or "no".
MatchCriteria(crit, lip, lps, rip, rps) ==
    IF ~(crit.local_addr = None \/ Some(lip) = crit.local_addr) THEN "no"
    ELSE IF crit.local_port # None /\ ~IsInt(lps) THEN "raise"
    ELSE IF ~(crit.local_port = None \/ Some(IntOf(lps)) = crit.local_port)
         THEN "no"
    ELSE IF ~(crit.remote_addr = None \/ Some(rip) = crit.remote_addr)
         THEN "no"
    ELSE IF crit.remote_port # None /\ ~IsInt(rps) THEN "raise"
    ELSE IF ~(crit.remote_port = None \/ Some(IntOf(rps)) = crit.remote_port)
         THEN "no"
    ELSE "yes"

\* Mutant of Emit: the accumulators are cleared once a record is emitted.
EmitAndReset(st, connection) ==
    [st EXCEPT !.connections = Append(@, connection),
               !.pid = None, !.fd = None, !.uid = None]

\* Line 211: connections.append(connection); the accumulators pid, fd and
\* uid keep their values.
Emit(st, connection) ==
    [st EXCEPT !.connections = Append(@, connection)]

\* The 'n' branch of the loop body: st is the loop state
\* [pid, fd, uid, connections, raised].
EndpointLine(st, line, crit) ==
    LET connection_info == SubSeq(line, 2, Len(line))
        halves == Split(connection_info, "->")
    IN  IF Len(halves) # 2 THEN [st EXCEPT !.raised = Some("ValueError")]
        ELSE
        LET local == RSplit1(halves[1], ":")
            remote == RSplit1(halves[2], ":")
        IN  IF Len(local) # 2 \/ Len(remote) # 2
            THEN [st EXCEPT !.raised = Some("ValueError")]
            ELSE
            LET m == MatchCriteria(crit, local[1], local[2],
                                   remote[1], remote[2])
            IN  IF m = "raise" THEN [st EXCEPT !.raised = Some("ValueError")]
                ELSE IF m = "no" THEN st
                ELSE IF ~IsInt(local[2]) \/ ~IsInt(remote[2])
                     THEN [st EXCEPT !.raised = Some("ValueError")]
                ELSE Emit(st, ConnectionInfo(local[1], IntOf(local[2]),
                                             remote[1], IntOf(remote[2]),
                                             st.pid, st.fd, st.uid))

\* Mutant of TaggedLine: an accumulator keeps the first value it was given.
TaggedLineKeepsFirst(st, line, field) ==
    LET text == SubSeq(line, 2, Len(line))
    IN  IF ~IsInt(text) THEN [st EXCEPT !.raised = Some("ValueError")]
        ELSE IF st[field] # None THEN st
        ELSE [st EXCEPT ![field] = Some(IntOf(text))]

\* A 'p', 'f' or 'u' line: int(line[1:]) into the named accumulator.
TaggedLine(st, line, field) ==
    LET text == SubSeq(line, 2, Len(line))
    IN  IF ~IsInt(text) THEN [st EXCEPT !.raised = Some("ValueError")]
        ELSE [st EXCEPT ![field] = Some(IntOf(text))]

\* Mutant of ParseLine: a line that cannot be parsed is skipped.
ParseLineSkipsMalformed(st, line, crit) ==
    LET r == IF StartsWith(line, "p") THEN TaggedLine(st, line, "pid")
             ELSE IF StartsWith(line, "f") THEN TaggedLine(st, line, "fd")
             ELSE IF StartsWith(line, "u") THEN TaggedLine(st, line, "uid")
             ELSE IF StartsWith(line, "n") THEN EndpointLine(st, line, crit)
             ELSE st
    IN  IF r.raised # None THEN st ELSE r

\* One pass of the for loop of _find_socket_fds over one line.
ParseLine(st, line, crit) ==
    IF StartsWith(line, "p") THEN TaggedLine(st, line, "pid")
    ELSE IF StartsWith(line, "f") THEN TaggedLine(st, line, "fd")
    ELSE IF StartsWith(line, "u") THEN TaggedLine(st, line, "uid")
    ELSE IF StartsWith(line, "n") THEN EndpointLine(st, line, crit)
    ELSE st

Criteria == [local_addr |-> local_addr, local_port |-> local_port,
             remote_addr |-> remote_addr, remote_port |-> remote_port]

LoopState == [pid |-> pid, fd |-> fd, uid |-> uid,
              connections |-> connections, raised |-> None]

----------------------------------------------------------------------------
\* The inputs of the parser runs.
LineA == "n10.0.0.1:80->10.0.0.2:443"
LineB == "n[::1]:8080->[::2]:443"

LineSet == {"p7", "u0", "f3", "fx", LineA, LineB}

\* What lsof prints in the runs of tcp_kill.
KillOutputs ==
    {<<>>,
     <<"p7", "u0", "f0", LineA>>,
     <<"p7", "u0", "f3", LineA, "f4", LineB>>,
     <<"f3", LineA>>,
     <<"p7", "u0", "fx", LineA>>}

\* The criteria of the runs of tcp_kill.
KillCriteria ==
    {[local_addr |-> None, local_port |-> None,
      remote_addr |-> None, remote_port |-> None],
     [local_addr |-> Some("10.0.0.1"), local_port |-> Some(80),
      remote_addr |-> Some("10.0.0.2"), remote_port |-> Some(443)]}

RECURSIVE SeqsUpTo(_, _)
SeqsUpTo(S, n) ==
    IF n = 0 THEN {<<>>}
    ELSE LET shorter == SeqsUpTo(S, n - 1)
         IN  shorter \cup {Append(q, x) : q \in {r \in shorter : Len(r) = n - 1},
                                          x \in S}

Outputs == SeqsUpTo(LineSet, MaxLines)

CriteriaSet ==
    {[local_addr |-> None, local_port |-> None,
      remote_addr |-> None, remote_port |-> None],
     [local_addr |-> Some("10.0.0.1"), local_port |-> Some(80),
      remote_addr |-> Some("10.0.0.2"), remote_port |-> Some(443)],
     [local_addr |-> None, local_port |-> Some(8080),
      remote_addr |-> None, remote_port |-> None]}

----------------------------------------------------------------------------
\* Formatting, as the f-strings and the string concatenations do it.
RECURSIVE NatToStr(_)
NatToStr(n) ==
    IF n < 10 THEN DigitChars[n + 1]
    ELSE NatToStr(n \div 10) \o DigitChars[(n % 10) + 1]

IntToStr(n) == IF n < 0 THEN "-" \o NatToStr(0 - n) ELSE NatToStr(n)

\* str() of an optional integer.
PyStr(o) == IF o = None THEN "None" ELSE IntToStr(Val(o))

WhiteSpace == {" ", "\n", "\t"}

\* str.strip()
RECURSIVE Strip(_)
Strip(s) ==
    IF Len(s) > 0 /\ Char(s, 1) \in WhiteSpace
    THEN Strip(SubSeq(s, 2, Len(s)))
    ELSE IF Len(s) > 0 /\ Char(s, Len(s)) \in WhiteSpace
    THEN Strip(SubSeq(s, 1, Len(s) - 1))
    ELSE s

\* An exception object: its class and str() of it.
Exception(type, msg) == Some([type |-> type, msg |-> msg])

----------------------------------------------------------------------------
\* The connection inventory: what lsof prints for the established
\* connections of the machine.

MaxRecords == 2

\* Connections lsof may report: IPv4, bracketed IPv6, an IPv6 literal without
\* brackets, and a second IPv4 connection of another process from the same
\* local endpoint.
RecordA == ConnectionInfo("10.0.0.1", 80, "10.0.0.2", 443,
                          Some(7), Some(3), Some(0))
RecordB == ConnectionInfo("[::1]", 8080, "[::2]", 443,
                          Some(7), Some(4), Some(0))
RecordC == ConnectionInfo("fe80::1", 8080, "fe80::2", 443,
                          Some(8), Some(3), Some(501))
RecordD == ConnectionInfo("10.0.0.1", 80, "10.0.0.3", 443,
                          Some(8), Some(5), Some(501))

RecordSet == {RecordA, RecordB, RecordC, RecordD}

Inventories == SeqsUpTo(RecordSet, MaxRecords)

\* The 'n' line of a connection, as "lsof -nP" prints it.
EndpointText(r) ==
    "n" \o r.local_ip \o ":" \o IntToStr(r.local_port)
        \o "->" \o r.remote_ip \o ":" \o IntToStr(r.remote_port)

\* The order of the field lines of "lsof -Fpfun": every record in full, as
\* p, f, u, n or as p, u, f, n; or grouped, the p and u lines once for the
\* consecutive connections of one process.
Layouts == {"pfu", "puf", "grouped"}

\* The lines of the i-th connection of inventory q.
RecordLines(q, i, layout) ==
    LET r == q[i]
        p == "p" \o IntToStr(Val(r.pid))
        f == "f" \o IntToStr(Val(r.fd))
        u == "u" \o IntToStr(Val(r.uid))
    IN  IF layout = "pfu" THEN <<p, f, u, EndpointText(r)>>
        ELSE IF layout = "puf" THEN <<p, u, f, EndpointText(r)>>
        ELSE (IF i = 1 \/ q[i - 1].pid # r.pid THEN <<p, u>> ELSE <<>>)
             \o <<f, EndpointText(r)>>

RECURSIVE RenderUpTo(_, _, _)
RenderUpTo(q, n, layout) ==
    IF n = 0 THEN <<>>
    ELSE RenderUpTo(q, n - 1, layout) \o RecordLines(q, n, layout)

\* What lsof prints for inventory q.
Render(q, layout) == RenderUpTo(q, Len(q), layout)

RecordOutputs == {Render(q, layout) : q \in Inventories, layout \in Layouts}

NoCriteria == [local_addr |-> None, local_port |-> None,
               remote_addr |-> None, remote_port |-> None]

\* Every combination of the four criteria, each absent or naming the
\* corresponding field of RecordA.
CriteriaCombos ==
    [local_addr : {None, Some(RecordA.local_ip)},
     local_port : {None, Some(RecordA.local_port)},
     remote_addr : {None, Some(RecordA.remote_ip)},
     remote_port : {None, Some(RecordA.remote_port)}]

\* Lines 189-213 as a function of lsof's output and the criteria: the loop
\* state after the first n lines of out.
RECURSIVE FindUpTo(_, _, _)
FindUpTo(out, n, crit) ==
    IF n = 0
    THEN [pid |-> None, fd |-> None, uid |-> None, connections |-> <<>>,
          raised |-> None]
    ELSE LET st == FindUpTo(out, n - 1, crit)
         IN  IF st.raised # None THEN st ELSE ParseLine(st, out[n], crit)

FindSocketFds(out, crit) == FindUpTo(out, Len(out), crit)

\* Lines lsof does not print: a tagged line whose value is no integer, an
\* endpoint line without "->", an endpoint line without a ':' port.
MalformedLines == {"px", "n10.0.0.1:80", "n10.0.0.1->10.0.0.2:443"}

InsertAt(q, i, x) == SubSeq(q, 1, i) \o <<x>> \o SubSeq(q, i + 1, Len(q))

\* The output for an inventory, as it is or with one malformed line in it.
MalformedOutputs ==
    UNION {LET out == Render(q, "pfu")
           IN  {out} \cup {InsertAt(out, i, bad) :
                               i \in 0..Len(out), bad \in MalformedLines} :
           q \in Inventories}

----------------------------------------------------------------------------
\* _find_socket_fds

\* What lsof can answer: its exit status with its standard error.
LsofExits == {[returncode |-> 0, error |-> ""],
              [returncode |-> 1, error |-> "lsof: status error\n"]}

\* Mutant of AfterLsof: a non-zero exit status aborts the enumeration.
AfterLsofAborts(rc) == IF rc # 0 THEN "raised" ELSE "loop"

\* Lines 186-191: whatever the exit status, the loop over the output follows.
AfterLsof(rc) == "loop"

\* Lines 182-190: run lsof, report a non-zero exit status, start the loop.
RunLsof(outs, exits) ==
    /\ ppc = "lsof"
    /\ \E out \in outs, ex \in exits :
          /\ output' = out
          /\ returncode' = ex.returncode
          /\ printed' = IF ex.returncode # 0
                        THEN Append(printed, "lsof command exited with error: "
                                             \o Strip(ex.error))
                        ELSE printed
          /\ ppc' = AfterLsof(ex.returncode)
    /\ connections' = <<>>
    /\ origin' = <<>>
    /\ pid' = None /\ fd' = None /\ uid' = None
    /\ li' = 0
    /\ UNCHANGED <<local_addr, local_port, remote_addr, remote_port, caller>>
    /\ UNCHANGED <<killVars, sessVars, targetVars, payloadVars, exc>>
    /\ UNCHANGED appVars

\* Lines 191-211: the loop body on the next line. A ValueError leaves
\* _find_socket_fds and, when tcp_kill called it, tcp_kill as well.
ParseStep ==
    /\ ppc = "loop"
    /\ li < Len(output)
    /\ LET st == ParseLine(LoopState, output[li + 1], Criteria)
       IN  /\ pid' = st.pid /\ fd' = st.fd /\ uid' = st.uid
           /\ connections' = st.connections
           /\ origin' = IF Len(st.connections) > Len(connections)
                        THEN Append(origin, li + 1) ELSE origin
           /\ IF st.raised # None
              THEN /\ ppc' = "raised"
                   /\ li' = li
                   /\ exc' = Exception(Val(st.raised), "")
                   /\ kpc' = IF caller = "tcp_kill" THEN "raised" ELSE kpc
              ELSE /\ ppc' = "loop"
                   /\ li' = li + 1
                   /\ UNCHANGED <<exc, kpc>>
    /\ UNCHANGED <<local_addr, local_port, remote_addr, remote_port, output,
                   returncode, caller>>
    /\ UNCHANGED <<platform, euid, verbose, kill_pid, kill_sockfd>>
    /\ UNCHANGED <<sessVars, targetVars, payloadVars, printed>>
    /\ UNCHANGED appVars

\* Line 213: the loop is over; return connections.
ParseReturn ==
    /\ ppc = "loop"
    /\ li = Len(output)
    /\ ppc' = "returned"
    /\ kpc' = IF caller = "tcp_kill" THEN "select" ELSE kpc
    /\ UNCHANGED <<local_addr, local_port, remote_addr, remote_port, output,
                   returncode, caller, li, pid, fd, uid, connections, origin>>
    /\ UNCHANGED <<platform, euid, verbose, kill_pid, kill_sockfd>>
    /\ UNCHANGED <<sessVars, targetVars, payloadVars, exc, printed>>
    /\ UNCHANGED appVars

----------------------------------------------------------------------------
\* tcp_kill

Platforms == {"Darwin", "Linux", "Windows"}

\* The effective user ids the caller may have: root and an ordinary user.
Euids == {0, 501}

\* The command line (src/tcp_killer.py:319-372).

\* Line 355: re.compile(r"^(.+)[:\.]([0-9]{1,5})$").match(s): None, or the
\* two groups. The separator is the ':' or '.' that has one to five digits,
\* and nothing else, between it and the end, and at least one character
\* before it.
ep_format(s) ==
    LET seps == {k \in 2..(Len(s) - 1) :
                    /\ Char(s, k) \in {":", "."}
                    /\ Len(s) - k <= 5
                    /\ AllDigits(SubSeq(s, k + 1, Len(s)))}
    IN  IF seps = {} THEN None
        ELSE Some([address |-> SubSeq(s, 1, SetMax(seps) - 1),
                   port |-> SubSeq(s, SetMax(seps) + 1, Len(s))])

\* Lines 361-367: an address in brackets loses them.
StripBrackets(a) ==
    IF StartsWith(a, "[") /\ Len(a) > 0 /\ Char(a, Len(a)) = "]"
    THEN SubSeq(a, 2, Len(a) - 1)
    ELSE a

IsFlag(w) == StartsWith(w, "-")
IsPositional(w) == ~IsFlag(w)

\* Lines 346-353: parser.parse_args(): the flag -verbose and two positional
\* arguments; anything else is an error, which argparse hands to
\* parser.error.
parse_args(words) ==
    LET positional == SelectSeq(words, IsPositional)
        flags == SelectSeq(words, IsFlag)
    IN  IF \E i \in 1..Len(flags) : flags[i] # "-verbose"
        THEN [error |-> Some("unrecognized arguments")]
        ELSE IF Len(positional) = 0
        THEN [error |-> Some("the following arguments are required: "
                             \o "<local endpoint>, <remote endpoint>")]
        ELSE IF Len(positional) = 1
        THEN [error |-> Some("the following arguments are required: "
                             \o "<remote endpoint>")]
        ELSE IF Len(positional) > 2
        THEN [error |-> Some("unrecognized arguments")]
        ELSE [error |-> None,
              verbose |-> Len(flags) > 0,
              local |-> positional[1],
              remote |-> positional[2]]

\* Lines 353-359: why the program rejects its command line, or None.
Rejection(words) ==
    LET parsed == parse_args(words)
    IN  IF parsed.error # None THEN parsed.error
        ELSE IF ep_format(parsed.local) = None
                \/ ep_format(parsed.remote) = None
        THEN Some("Invalid command-line argument.")
        ELSE None

\* Lines 361-370: the arguments of the call of tcp_kill.
CliCall(words) ==
    LET parsed == parse_args(words)
        local == Val(ep_format(parsed.local))
        remote == Val(ep_format(parsed.remote))
    IN  [criteria |->
             [local_addr |-> Some(StripBrackets(local.address)),
              local_port |-> Some(NatOf(local.port)),
              remote_addr |-> Some(StripBrackets(remote.address)),
              remote_port |-> Some(NatOf(remote.port))],
         verbose |-> parsed.verbose]

\* Lines 323-330: ArgParser.error(message): what it prints, and the status
\* it passes to self.exit.
ArgParserError(message) ==
    [printed |-> <<"tcp_killer v1.0",
                   "by geffner@google.com (Jason Geffner)",
                   "",
                   "Error: " \o message,
                   "",
                   "Usage: tcp_killer.py [-verbose] <local endpoint> "
                   \o "<remote endpoint>">>,
     status |-> 0]

\* The command lines of the runs of the program.
CommandLines ==
    {<<"10.0.0.1:80", "10.0.0.2:443">>,
     <<"-verbose", "10.0.0.1:80", "10.0.0.2:443">>,
     <<"[10.0.0.1]:80", "10.0.0.2.443">>,
     <<"10.0.0.1", "10.0.0.2:443">>,
     <<"localhost", "10.0.0.2:443">>,
     <<"10.0.0.1:80", "10.0.0.2:https">>,
     <<"10.0.0.1:80">>}

\* Mutant of Supported: every platform passes the check.
SupportedAny(p) == TRUE

\* Line 245: the platforms tcp_kill is implemented for.
Supported(p) == p \in {"Darwin", "Linux"}

\* Lines 245-249: the platform check, then the call of _find_socket_fds.
TcpKillStart ==
    /\ kpc = "start"
    /\ \E c \in (IF cpc = "tcp_kill" THEN {CliCall(Val(argv)).criteria}
                 ELSE KillCriteria) :
          /\ local_addr' = c.local_addr /\ local_port' = c.local_port
          /\ remote_addr' = c.remote_addr /\ remote_port' = c.remote_port
    /\ verbose' \in (IF cpc = "tcp_kill" THEN {CliCall(Val(argv)).verbose}
                    ELSE BOOLEAN)
    /\ IF ~Supported(platform)
       THEN /\ kpc' = "raised"
            /\ exc' = Exception("NotImplementedError",
                   "This function is only implemented for Linux and "
                   \o "macOS systems.")
            /\ UNCHANGED <<ppc, caller>>
       ELSE /\ kpc' = "find"
            /\ ppc' = "lsof"
            /\ caller' = "tcp_kill"
            /\ UNCHANGED exc
    /\ UNCHANGED <<output, returncode, li, pid, fd, uid, connections, origin>>
    /\ UNCHANGED <<platform, euid, kill_pid, kill_sockfd>>
    /\ UNCHANGED <<sessVars, targetVars, payloadVars, printed>>
    /\ UNCHANGED appVars

\* Mutant of NotFoundMessage: the hint is given whatever the user id.
NotFoundMessageAlwaysHint(e) ==
    "Socket not found for connection." \o " Try running as root."

\* Line 257-258: the text of the OSError.
NotFoundMessage(e) ==
    "Socket not found for connection."
    \o (IF e # 0 THEN " Try running as root." ELSE "")

\* Mutant of SelectTarget: the last record is taken.
SelectLastTarget(conns) ==
    IF Len(conns) > 0
    THEN [pid |-> conns[Len(conns)].pid, sockfd |-> conns[Len(conns)].fd]
    ELSE [pid |-> None, sockfd |-> None]

\* Lines 251-254: the record tcp_kill acts on, as [pid, sockfd].
SelectTarget(conns) ==
    IF Len(conns) > 0
    THEN [pid |-> conns[1].pid, sockfd |-> conns[1].fd]
    ELSE [pid |-> None, sockfd |-> None]

\* Mutant of SocketMissing: the test never fails, so that tcp_kill goes on to
\* _shutdown_sockfd without a selected record.
SocketMissingNever(s) == FALSE

\* Line 256: "if not sockfd".
SocketMissing(s) == ~Truthy(s)

\* Lines 251-264: pick the first record, fail when there is no descriptor,
\* otherwise call _shutdown_sockfd(pid, sockfd, verbose).
TcpKillSelect ==
    /\ kpc = "select"
    /\ LET t == SelectTarget(connections)
       IN  /\ kill_pid' = t.pid
           /\ kill_sockfd' = t.sockfd
           /\ IF SocketMissing(t.sockfd)
              THEN /\ kpc' = "raised"
                   /\ \E e \in Euids :
                         /\ euid' = Some(e)
                         /\ exc' = Exception("OSError", NotFoundMessage(e))
                   /\ UNCHANGED <<spc, scaller, target_pid, sockfd, printed>>
              ELSE /\ kpc' = "shutdown"
                   /\ spc' = "attach"
                   /\ scaller' = "tcp_kill"
                   /\ target_pid' = t.pid
                   /\ sockfd' = t.sockfd
                   /\ printed' =
                        IF verbose
                        THEN printed \o
                             <<"Process ID of socket's process: " \o PyStr(t.pid),
                               "Socket file descriptor: " \o PyStr(t.sockfd)>>
                        ELSE printed
                   /\ UNCHANGED <<exc, euid>>
    /\ UNCHANGED <<platform, verbose>>
    /\ UNCHANGED <<js_error, result, pending, listener, calls>>
    /\ UNCHANGED <<parseVars, targetVars, payloadVars>>
    /\ UNCHANGED appVars

----------------------------------------------------------------------------
\* The target process and the channel from it to the controller.

MaxModules == 2

SystemKernel == [name |-> "libsystem_kernel.dylib",
                 path |-> "/usr/lib/system/libsystem_kernel.dylib",
                 exports |-> {"shutdown", "__error"}]
AppLibrary   == [name |-> "libfoo.dylib",
                 path |-> "/opt/app/libfoo.dylib",
                 exports |-> {"shutdown"}]
LinuxLibc    == [name |-> "libc.so.6",
                 path |-> "/lib/x86_64-linux-gnu/libc.so.6",
                 exports |-> {"shutdown"}]

ModuleSet == {SystemKernel, AppLibrary, LinuxLibc}

NoRepeat(q) == \A i, j \in 1..Len(q) : q[i] = q[j] => i = j

\* The module lists a target may have loaded.
ModuleTables == {q \in SeqsUpTo(ModuleSet, MaxModules) : NoRepeat(q)}

\* What travels on the channel.
SendMessage(text) == [kind |-> "message", type |-> "send", payload |-> text]
ErrorMessage(text) == [kind |-> "message", type |-> "error", description |-> text]
ReplyValue(v) == [kind |-> "reply", ok |-> TRUE, value |-> v]
ReplyError(text) == [kind |-> "reply", ok |-> FALSE, description |-> text]
TransportEvent(text) == [kind |-> "transport", text |-> text]

ConnectionClosed == "the connection is closed"
ConnectionReset == "connection reset by peer"

\* The target process exits: whatever it had sent stays ahead of the
\* channel-closed condition.
TargetExit ==
    /\ alive
    /\ spc \in {"attach", "create_script", "on", "load", "load_wait",
                "invoke", "invoke_wait", "finally"}
    /\ alive' = FALSE
    /\ channel' = IF spc = "attach" THEN channel
                  ELSE Append(channel, TransportEvent(ConnectionClosed))
    /\ UNCHANGED <<modules, parseVars, killVars, sessVars, payloadVars, exc,
                   printed>>
    /\ UNCHANGED appVars

\* What can end a blocking call of the controller: the oldest item of the
\* channel when it is a reply or the channel-closed condition, or a transport
\* failure of another kind, which can come at any time.
Endings ==
    (IF channel # <<>> /\ Head(channel).kind \in {"reply", "transport"}
     THEN {Head(channel)} ELSE {})
    \cup {TransportEvent(ConnectionReset)}

\* The channel once the call ended with item.
Consumed(item) ==
    IF channel # <<>> /\ item = Head(channel) THEN Tail(channel) ELSE channel

----------------------------------------------------------------------------
\* _shutdown_sockfd

\* The descriptors a direct caller (the GUI) may pass.
DirectSockfds == {-1, 3}

\* A direct call _shutdown_sockfd(pid, sockfd, verbose).
CallShutdown ==
    /\ kpc = "start" /\ spc = "idle"
    /\ cpc = "unused"
    /\ platform \in {"Darwin", "Linux"}
    /\ verbose' \in BOOLEAN
    /\ \E s \in DirectSockfds : sockfd' = Some(s)
    /\ target_pid' = Some(7)
    /\ scaller' = "direct"
    /\ spc' = "attach"
    /\ kpc' = "unused"
    /\ UNCHANGED <<platform, euid, kill_pid, kill_sockfd>>
    /\ UNCHANGED <<js_error, result, pending, listener, calls>>
    /\ UNCHANGED <<parseVars, targetVars, payloadVars, exc, printed>>
    /\ UNCHANGED appVars

\* Control leaves _shutdown_sockfd with exception e (None: a normal return)
\* and, when tcp_kill made the call, leaves tcp_kill the same way (line 264).
Leave(e) ==
    /\ spc' = IF e = None THEN "returned" ELSE "raised"
    /\ exc' = e
    /\ kpc' = IF scaller = "tcp_kill"
              THEN (IF e = None THEN "returned" ELSE "raised")
              ELSE kpc

\* Mutant of AttachFailed: the failure is passed over and the function goes
\* on to create the script.
AttachFailedContinues(failure) ==
    /\ spc' = "create_script"
    /\ UNCHANGED <<exc, kpc>>

\* Line 294: frida.attach raises outside any try statement: the exception
\* leaves _shutdown_sockfd at once.
AttachFailed(failure) == Leave(failure)

\* Mutant of NewSession: attach hands out the session it created first.
NewSessionCached(sessions) == 1

\* Line 294: every frida.attach creates a session that did not exist before.
NewSession(sessions) == Cardinality(sessions) + 1

\* Line 294: session = frida.attach(pid), the target having one of the
\* module lists of tables.
AttachTo(tables) ==
    /\ spc = "attach"
    /\ \E granted \in BOOLEAN, m \in tables :
          LET failure ==
                IF target_pid = None
                THEN Exception("TypeError", "pid must be an integer")
                ELSE IF ~alive
                THEN Exception("ProcessNotFoundError",
                               "unable to find process with pid "
                               \o PyStr(target_pid))
                ELSE IF ~granted
                THEN Exception("PermissionDeniedError",
                               "unable to access process with pid "
                               \o PyStr(target_pid))
                ELSE None
          IN  /\ calls' = Append(calls, [op |-> "attach", pid |-> target_pid,
                                         ok |-> failure = None])
              /\ IF failure = None
                 THEN /\ spc' = "create_script"
                      /\ modules' = m
                      /\ session' = Some(NewSession(opened))
                      /\ opened' = opened
                                   \cup {<<NewSession(opened), operation>>}
                      /\ UNCHANGED <<exc, kpc>>
                 ELSE /\ AttachFailed(failure)
                      /\ UNCHANGED <<modules, session, opened>>
    /\ UNCHANGED <<platform, euid, verbose, kill_pid, kill_sockfd>>
    /\ UNCHANGED <<scaller, target_pid, sockfd, js_error, result, pending,
                   listener>>
    /\ UNCHANGED <<alive, channel, parseVars, payloadVars, printed>>
    /\ UNCHANGED <<cliVars, guiVars, windowVars, operation>>

Attach == AttachTo(ModuleTables)

\* Line 295: script = session.create_script(_FRIDA_SCRIPT). It is outside the
\* try statement: an exception here leaves the function at once.
CreateScript ==
    /\ spc = "create_script"
    /\ calls' = Append(calls, [op |-> "create_script", ok |-> alive])
    /\ IF alive
       THEN /\ spc' = "on"
            /\ UNCHANGED <<exc, kpc>>
       ELSE Leave(Exception("InvalidOperationError", "session is gone"))
    /\ UNCHANGED <<platform, euid, verbose, kill_pid, kill_sockfd>>
    /\ UNCHANGED <<scaller, target_pid, sockfd, js_error, result, pending,
                   listener>>
    /\ UNCHANGED <<targetVars, parseVars, payloadVars, printed>>
    /\ UNCHANGED appVars

\* Mutant of RegisterListener: the listener is not registered.
RegisterListenerMissing ==
    /\ spc = "on"
    /\ spc' = "load"
    /\ UNCHANGED <<scaller, target_pid, sockfd, js_error, result, pending,
                   listener, calls>>
    /\ UNCHANGED <<parseVars, killVars, targetVars, payloadVars, exc, printed>>
    /\ UNCHANGED appVars

\* Line 296: script.on("message", on_message).
RegisterListener ==
    /\ spc = "on"
    /\ calls' = Append(calls, [op |-> "on", ok |-> TRUE])
    /\ listener' = TRUE
    /\ spc' = "load"
    /\ UNCHANGED <<scaller, target_pid, sockfd, js_error, result, pending>>
    /\ UNCHANGED <<parseVars, killVars, targetVars, payloadVars, exc, printed>>
    /\ UNCHANGED appVars

\* Mutant of on_message: a message of type "error" is not recorded.
on_message_drops_error(message) ==
    IF message.type = "send" /\ verbose /\ message.payload # ""
    THEN [js_error |-> js_error,
          printed |-> Append(printed, "[Frida] " \o message.payload)]
    ELSE [js_error |-> js_error, printed |-> printed]

\* Lines 286-292: on_message(message, data) as [js_error, printed].
on_message(message) ==
    IF message.type = "error"
    THEN [js_error |-> Some(message.description), printed |-> printed]
    ELSE IF message.type = "send" /\ verbose /\ message.payload # ""
    THEN [js_error |-> js_error,
          printed |-> Append(printed, "[Frida] " \o message.payload)]
    ELSE [js_error |-> js_error, printed |-> printed]

\* The backend hands the oldest message of the channel to the listener.
DeliverMessage ==
    /\ listener
    /\ spc \in {"load", "load_wait", "invoke", "invoke_wait", "finally"}
    /\ channel # <<>>
    /\ Head(channel).kind = "message"
    /\ LET r == on_message(Head(channel))
       IN  /\ js_error' = r.js_error
           /\ printed' = r.printed
    /\ channel' = Tail(channel)
    /\ UNCHANGED <<spc, scaller, target_pid, sockfd, result, pending, listener,
                   calls>>
    /\ UNCHANGED <<alive, modules, parseVars, killVars, payloadVars, exc>>
    /\ UNCHANGED appVars

\* Line 299: script.load() is issued.
Load ==
    /\ spc = "load"
    /\ calls' = Append(calls, [op |-> "load", ok |-> alive])
    /\ spc' = "load_wait"
    /\ jpc' = IF alive THEN "loading" ELSE jpc
    /\ UNCHANGED <<scaller, target_pid, sockfd, js_error, result, pending,
                   listener>>
    /\ UNCHANGED <<shutdown_func, probe, jresult, fault, tcalls>>
    /\ UNCHANGED <<parseVars, killVars, targetVars, exc, printed>>
    /\ UNCHANGED appVars

\* Mutant of ExceptClauses: every transport error is re-raised, whatever its
\* text.
ExceptClausesAnyText(item) ==
    IF item.kind = "transport"
    THEN [js_error |-> js_error,
          pending |-> Exception("TransportError", item.text)]
    ELSE [js_error |-> Some(item.description), pending |-> None]

\* Mutant of ExceptClauses: a transport error of another text is recorded like
\* any other exception.
ExceptClausesRecordsAll(item) ==
    IF item.kind = "transport"
    THEN IF item.text # ConnectionClosed
         THEN [js_error |-> Some(item.text), pending |-> None]
         ELSE [js_error |-> js_error, pending |-> None]
    ELSE [js_error |-> Some(item.description), pending |-> None]

\* Lines 304-308: the except clauses of the try statement, for what ended
\* load or the invocation, as [js_error, pending].
ExceptClauses(item) ==
    IF item.kind = "transport"
    THEN IF item.text # ConnectionClosed
         THEN [js_error |-> js_error,
               pending |-> Exception("TransportError", item.text)]
         ELSE [js_error |-> js_error, pending |-> None]
    ELSE [js_error |-> Some(item.description), pending |-> None]

\* Mutant of AfterLoad: the invocation is issued whether or not the load
\* succeeded.
AfterLoadAlwaysInvokes(ok) == "invoke"

\* Lines 298-309: after script.load() the try block goes on to the
\* invocation; an exception from load skips it and reaches the finally clause.
AfterLoad(ok) == IF ok THEN "invoke" ELSE "finally"

\* script.load() ends: it returns, or it raises into the except clauses.
LoadReturns ==
    /\ spc = "load_wait"
    /\ \E item \in Endings :
          /\ spc' = AfterLoad(item.kind = "reply" /\ item.ok)
          /\ IF item.kind = "reply" /\ item.ok
             THEN UNCHANGED <<js_error, pending>>
             ELSE /\ js_error' = ExceptClauses(item).js_error
                  /\ pending' = ExceptClauses(item).pending
          /\ channel' = Consumed(item)
          /\ calls' = Append(calls, [op |-> "ended", call |-> "load",
                                     with |-> item])
    /\ UNCHANGED <<scaller, target_pid, sockfd, result, listener>>
    /\ UNCHANGED <<alive, modules, parseVars, killVars, payloadVars, exc,
                   printed>>
    /\ UNCHANGED appVars

\* Line 301: script.exports_sync.shutdown_socket(sockfd) is issued.
Invoke ==
    /\ spc = "invoke"
    /\ calls' = Append(calls, [op |-> "invoke", sockfd |-> sockfd,
                               ok |-> alive])
    /\ spc' = "invoke_wait"
    /\ jpc' = IF alive THEN "entry" ELSE jpc
    /\ UNCHANGED <<scaller, target_pid, sockfd, js_error, result, pending,
                   listener>>
    /\ UNCHANGED <<shutdown_func, probe, jresult, fault, tcalls>>
    /\ UNCHANGED <<parseVars, killVars, targetVars, exc, printed>>
    /\ UNCHANGED appVars

\* Mutant of AfterInvoke: after a result the function goes to its final check
\* without the finally clause.
AfterInvokeSkipsFinally(ok) == IF ok THEN "check" ELSE "finally"

\* Lines 301-309: whether the invocation returned or raised into the except
\* clauses, the finally clause comes next.
AfterInvoke(ok) == "finally"

\* Lines 301-308: the invocation ends: with a result (printed when verbose),
\* or with an exception for the except clauses.
InvokeReturns ==
    /\ spc = "invoke_wait"
    /\ \E item \in Endings :
          /\ IF item.kind = "reply" /\ item.ok
             THEN /\ printed' =
                       IF verbose
                       THEN Append(printed, "[Frida] Shutdown returned: "
                                            \o IntToStr(item.value))
                       ELSE printed
                  /\ result' = Some(item.value)
                  /\ UNCHANGED <<js_error, pending>>
             ELSE /\ js_error' = ExceptClauses(item).js_error
                  /\ pending' = ExceptClauses(item).pending
                  /\ UNCHANGED <<printed, result>>
          /\ channel' = Consumed(item)
          /\ calls' = Append(calls, [op |-> "ended", call |-> "invoke",
                                     with |-> item])
          /\ spc' = AfterInvoke(item.kind = "reply" /\ item.ok)
    /\ UNCHANGED <<scaller, target_pid, sockfd, listener>>
    /\ UNCHANGED <<alive, modules, parseVars, killVars, payloadVars, exc>>
    /\ UNCHANGED appVars

\* Mutant of DetachFailed: the failure of detach replaces the exception in
\* flight and reaches the caller.
DetachFailedPropagates(inflight) ==
    Exception("InvalidOperationError", "session is gone")

\* Lines 310-313: what a failure of session.detach() does to the exception
\* in flight: the bare except clause swallows it.
DetachFailed(inflight) == inflight

\* Lines 309-313: the finally clause: detach, then let an exception in flight
\* go on.
Detach ==
    /\ spc = "finally"
    /\ \E fails \in (IF alive THEN {FALSE} ELSE BOOLEAN) :
          LET after == IF fails THEN DetachFailed(pending) ELSE pending
          IN  /\ calls' = Append(calls, [op |-> "detach", ok |-> ~fails])
              /\ IF after # None
                 THEN Leave(after)
                 ELSE /\ spc' = "check"
                      /\ UNCHANGED <<exc, kpc>>
    /\ pending' = None
    /\ UNCHANGED <<platform, euid, verbose, kill_pid, kill_sockfd>>
    /\ UNCHANGED <<scaller, target_pid, sockfd, js_error, result, listener>>
    /\ UNCHANGED <<targetVars, parseVars, payloadVars, printed>>
    /\ UNCHANGED appVars

\* Mutant of FinalCheck: the function ends with RuntimeError whether or not
\* an error was recorded.
FinalCheckAlwaysRaises(err) == Exception("RuntimeError", "")

\* Lines 315-316: the exception (None: a normal return) that ends the
\* function, given the dictionary js_error.
FinalCheck(err) ==
    IF err # None THEN Exception("RuntimeError", Val(err)) ELSE None

\* Lines 315-316.
RaiseRecorded ==
    /\ spc = "check"
    /\ Leave(FinalCheck(js_error))
    /\ UNCHANGED <<platform, euid, verbose, kill_pid, kill_sockfd>>
    /\ UNCHANGED <<scaller, target_pid, sockfd, js_error, result, pending,
                   listener, calls>>
    /\ UNCHANGED <<targetVars, parseVars, payloadVars, printed>>
    /\ UNCHANGED appVars

----------------------------------------------------------------------------
\* The target's side of the session: what the instrumentation runtime
\* answers to the payload, from the modules loaded in the target.

\* The address of export sym of the i-th module.
Address(i, sym) == 4096 * i + (IF sym = "shutdown" THEN 256 ELSE 512)

HexChars == <<"0", "1", "2", "3", "4", "5", "6", "7", "8", "9",
              "a", "b", "c", "d", "e", "f">>

RECURSIVE NatToHex(_)
NatToHex(n) ==
    IF n < 16 THEN HexChars[n + 1]
    ELSE NatToHex(n \div 16) \o HexChars[(n % 16) + 1]

\* NativePointer.toString()
PointerStr(a) == "0x" \o NatToHex(a)

\* Module.findExportByName(name, sym) when it does not throw: name None is
\* the unscoped lookup, over all modules in load order.
FindExportByName(mods, name, sym) ==
    LET cands == IF name = None
                 THEN {i \in 1..Len(mods) : sym \in mods[i].exports}
                 ELSE {i \in 1..Len(mods) : mods[i].name = Val(name)}
    IN  IF cands = {} THEN None
        ELSE IF sym \in mods[SetMin(cands)].exports
        THEN Some(Address(SetMin(cands), sym))
        ELSE None

\* ApiResolver("module").enumerateMatchesSync("exports:*!shutdown") when it
\* does not throw: one match per module exporting shutdown, in load order.
\* with_path tells whether the runtime's matches have a path property.
RECURSIVE ResolverMatches(_, _, _)
ResolverMatches(mods, i, with_path) ==
    IF i > Len(mods) THEN <<>>
    ELSE (IF "shutdown" \in mods[i].exports
          THEN <<[name |-> mods[i].path \o "!shutdown",
                  address |-> Address(i, "shutdown"),
                  path |-> IF with_path THEN Some(mods[i].path) ELSE None]>>
          ELSE <<>>)
         \o ResolverMatches(mods, i + 1, with_path)

\* The messages of the faults the runtime can raise.
ApiFault == "not a function"
ModuleFault == "unable to find module"
ExportFault == "unable to find export"
BindFault == "invalid argument"
CallFault == "access violation"

----------------------------------------------------------------------------
\* The payload shutdownSocket.

SHUT_RDWR == 2

\* Lines 61-63: the filter for system libraries.
IsSystemPath(path) ==
    /\ path # None
    /\ Val(path) # ""
    /\ \/ Contains(Val(path), "libsystem")
       \/ Contains(Val(path), "libc")
       \/ Contains(Val(path), "System")

\* Mutant of SelectSystemMatch: the first candidate is taken, whatever its
\* path.
SelectFirstMatch(matches) == IF matches = <<>> THEN 0 ELSE 1

\* Lines 59-68: the index of the match the loop stops at, 0 when it ends
\* without one.
SelectSystemMatch(matches) ==
    LET hits == {i \in 1..Len(matches) : IsSystemPath(matches[i].path)}
    IN  IF hits = {} THEN 0 ELSE SetMin(hits)

\* Mutant of possibleModules: the unscoped lookup comes first.
possibleModulesUnscopedFirst ==
    <<None, Some("libsystem_kernel.dylib"), Some("libsystem_c.dylib"),
      Some("libc.dylib")>>

\* Line 75.
possibleModules == <<Some("libsystem_kernel.dylib"), Some("libsystem_c.dylib"),
                     Some("libc.dylib"), None>>

\* A path in a message: undefined prints as "undefined".
PathStr(path) == IF path = None THEN "undefined" ELSE Val(path)

\* A module name in a message: null prints as "null".
NameStr(name) == IF name = None THEN "null" ELSE Val(name)

\* The payload runs in the target while the controller waits for the
\* invocation; the controller's listener thread keeps up with it: the payload
\* takes its next step once the messages it sent have been handed over.
Running ==
    /\ alive
    /\ spc = "invoke_wait"
    /\ \A k \in 1..Len(channel) : channel[k].kind # "message"

\* The script is evaluated in the target (lines 47-143 define rpc.exports).
LoadScript ==
    /\ alive
    /\ spc = "load_wait"
    /\ jpc = "loading"
    /\ \E ok \in BOOLEAN :
          /\ channel' = Append(channel,
                 IF ok THEN ReplyValue(0)
                 ELSE ReplyError("script has been destroyed"))
          /\ jpc' = IF ok THEN "ready" ELSE "none"
    /\ UNCHANGED <<alive, modules>>
    /\ UNCHANGED <<shutdown_func, probe, jresult, fault, tcalls>>
    /\ UNCHANGED <<parseVars, killVars, sessVars, exc, printed>>
    /\ UNCHANGED appVars

\* The description of an exception nothing in the script catches.
UncaughtError == "Error: uncaught exception in script"

\* The script's runtime reports, once, an exception that nothing in the
\* script caught: a message of type "error" for the listener (lines 286-288
\* receive it). It can come at any time from the load of the script to the
\* detach.
ScriptError ==
    /\ alive
    /\ spc \in {"load_wait", "invoke", "invoke_wait", "finally"}
    /\ jpc # "none"
    /\ \A i \in 1..Len(tcalls) : tcalls[i].api # "uncaught"
    /\ channel' = Append(channel, ErrorMessage(UncaughtError))
    /\ tcalls' = Append(tcalls, [api |-> "uncaught", ok |-> FALSE])
    /\ UNCHANGED <<alive, modules>>
    /\ UNCHANGED <<jpc, shutdown_func, probe, jresult, fault>>
    /\ UNCHANGED <<parseVars, killVars, sessVars, exc, printed>>
    /\ UNCHANGED appVars

\* Mutant of AfterStrategy1: strategy 2 is skipped.
AfterStrategy1Skips(resolved) == IF resolved THEN "check" ELSE "s3"

\* Line 74: "if (!shutdown_func)": strategy 2 runs when strategy 1 left no
\* address.
AfterStrategy1(resolved) == IF resolved THEN "check" ELSE "s2"

\* Lines 50-71: on macOS, strategy 1: the export enumeration and its filter.
Strategy1 ==
    /\ Running
    /\ jpc = "entry"
    /\ platform = "Darwin"
    /\ \E shape \in {"throws", "paths", "no paths"} :
          LET matches == IF shape = "throws" THEN <<>>
                         ELSE ResolverMatches(modules, 1, shape = "paths")
              k == SelectSystemMatch(matches)
          IN  /\ tcalls' = Append(tcalls,
                     [api |-> "enumerateMatchesSync",
                      query |-> "exports:*!shutdown",
                      ok |-> shape # "throws",
                      paths |-> shape = "paths",
                      found |-> IF k = 0 THEN None
                                ELSE Some(matches[k].address)])
              /\ shutdown_func' = IF k = 0 THEN None
                                  ELSE Some(matches[k].address)
              /\ channel' =
                   IF shape = "throws"
                   THEN Append(channel,
                               SendMessage("ApiResolver failed: " \o ApiFault))
                   ELSE IF k # 0
                   THEN Append(channel,
                               SendMessage("Found shutdown at: "
                                           \o matches[k].name \o " in "
                                           \o PathStr(matches[k].path)))
                   ELSE channel
              /\ jpc' = AfterStrategy1(k # 0)
    /\ probe' = 1
    /\ UNCHANGED <<alive, modules, jresult, fault>>
    /\ UNCHANGED <<parseVars, killVars, sessVars, exc, printed>>
    /\ UNCHANGED appVars

\* Mutant of AfterProbe: a probe without an address ends strategy 2.
AfterProbeLeaves(resolved, i) == IF resolved THEN "check" ELSE "s3"

\* Lines 76-91: after probe i: break on an address, go on with the next
\* name, or leave the loop for strategy 3.
AfterProbe(resolved, i) ==
    IF resolved THEN "check"
    ELSE IF i = Len(possibleModules) THEN "s3"
    ELSE "s2"

\* Lines 74-88: strategy 2: one pass of the loop over possibleModules.
Strategy2Probe ==
    /\ Running
    /\ jpc = "s2"
    /\ \E throws \in BOOLEAN :
          LET name == possibleModules[probe]
              address == IF throws THEN None
                        ELSE FindExportByName(modules, name, "shutdown")
          IN  /\ tcalls' = Append(tcalls,
                     [api |-> "findExportByName", module |-> name,
                      symbol |-> "shutdown", ok |-> ~throws,
                      found |-> address])
              /\ shutdown_func' = address
              /\ channel' =
                   IF throws
                   THEN Append(channel,
                               SendMessage("Failed to find shutdown in "
                                           \o NameStr(name) \o ": "
                                           \o ApiFault))
                   ELSE IF address # None
                   THEN Append(channel,
                               SendMessage("Found shutdown using "
                                           \o "Module.findExportByName in "
                                           \o NameStr(name)))
                   ELSE channel
              /\ jpc' = AfterProbe(address # None, probe)
              /\ probe' = IF address # None THEN probe ELSE probe + 1
    /\ UNCHANGED <<alive, modules, jresult, fault>>
    /\ UNCHANGED <<parseVars, killVars, sessVars, exc, printed>>
    /\ UNCHANGED appVars

\* Lines 90-103: strategy 3: the kernel-interface library by name, then its
\* export table.
Strategy3 ==
    /\ Running
    /\ jpc = "s3"
    /\ \E throws \in BOOLEAN :
          LET named == {i \in 1..Len(modules) :
                            modules[i].name = "libsystem_kernel.dylib"}
              found == ~throws /\ named # {}
              exported == found /\ "shutdown" \in modules[SetMin(named)].exports
          IN  /\ tcalls' = tcalls
                     \o <<[api |-> "getModuleByName",
                           module |-> Some("libsystem_kernel.dylib"),
                           ok |-> found, found |-> None]>>
                     \o (IF found
                         THEN <<[api |-> "getExportByName",
                                 module |-> Some("libsystem_kernel.dylib"),
                                 symbol |-> "shutdown", ok |-> exported,
                                 found |-> IF exported
                                           THEN Some(Address(SetMin(named),
                                                             "shutdown"))
                                           ELSE None]>>
                         ELSE <<>>)
              /\ shutdown_func' =
                   IF exported THEN Some(Address(SetMin(named), "shutdown"))
                   ELSE None
              /\ channel' = Append(channel,
                     IF exported
                     THEN SendMessage("Found shutdown in "
                                      \o "libsystem_kernel.dylib directly")
                     ELSE SendMessage("Failed to get libsystem_kernel.dylib: "
                                      \o (IF throws THEN ApiFault
                                          ELSE IF named = {} THEN ModuleFault
                                          ELSE ExportFault)))
    /\ jpc' = "check"
    /\ UNCHANGED <<alive, modules, probe, jresult, fault>>
    /\ UNCHANGED <<parseVars, killVars, sessVars, exc, printed>>
    /\ UNCHANGED appVars

\* Mutant of LinuxResolve: the unscoped lookup is preferred.
LinuxResolveUnscopedFirst(first, unscoped) ==
    IF unscoped # None THEN unscoped ELSE first

\* Lines 106-107: "first || unscoped".
LinuxResolve(first, unscoped) == IF first # None THEN first ELSE unscoped

\* Lines 104-108: elsewhere (Linux): libc.so.6, then the unscoped lookup. A
\* fault here is not caught locally: it reaches the outer catch.
LinuxLookup ==
    /\ Running
    /\ jpc = "entry"
    /\ platform # "Darwin"
    /\ \E throws \in BOOLEAN :
          LET first == FindExportByName(modules, Some("libc.so.6"), "shutdown")
          IN  /\ tcalls' = tcalls
                     \o <<[api |-> "findExportByName",
                           module |-> Some("libc.so.6"),
                           symbol |-> "shutdown", ok |-> ~throws,
                           found |-> IF throws THEN None ELSE first]>>
                     \o (IF ~throws /\ first = None
                         THEN <<[api |-> "findExportByName", module |-> None,
                                 symbol |-> "shutdown", ok |-> TRUE,
                                 found |-> FindExportByName(modules, None,
                                                            "shutdown")]>>
                         ELSE <<>>)
              /\ shutdown_func' =
                   IF throws THEN None
                   ELSE LinuxResolve(first, FindExportByName(modules, None,
                                                             "shutdown"))
              /\ fault' = IF throws THEN ApiFault ELSE fault
              /\ jpc' = IF throws THEN "catch" ELSE "check"
    /\ UNCHANGED <<alive, modules, channel, probe, jresult>>
    /\ UNCHANGED <<parseVars, killVars, sessVars, exc, printed>>
    /\ UNCHANGED appVars

\* Mutant of Unresolved: the check of the address is missing.
UnresolvedIgnored(f) == FALSE

\* Line 110: "if (!shutdown_func)": the resolution produced no address.
Unresolved(f) == f = None

\* Lines 110-114: no address: throw; otherwise announce the binding.
CheckResolved ==
    /\ Running
    /\ jpc = "check"
    /\ IF Unresolved(shutdown_func)
       THEN /\ fault' = "Could not find shutdown function in target process"
            /\ jpc' = "catch"
            /\ UNCHANGED channel
       ELSE /\ channel' = Append(channel,
                   SendMessage("About to create NativeFunction with "
                               \o "shutdown_func: "
                               \o (IF shutdown_func = None THEN "null"
                                   ELSE PointerStr(Val(shutdown_func)))))
            /\ jpc' = "bind"
            /\ UNCHANGED fault
    /\ UNCHANGED <<alive, modules, shutdown_func, probe, jresult, tcalls>>
    /\ UNCHANGED <<parseVars, killVars, sessVars, exc, printed>>
    /\ UNCHANGED appVars

\* Lines 116-118: bind the native callable (int, int) -> int.
Bind ==
    /\ Running
    /\ jpc = "bind"
    /\ \E throws \in BOOLEAN :
          /\ tcalls' = Append(tcalls,
                 [api |-> "NativeFunction", address |-> shutdown_func,
                  signature |-> <<"int", <<"int", "int">>>>, ok |-> ~throws])
          /\ IF throws
             THEN /\ fault' = BindFault
                  /\ jpc' = "catch"
                  /\ UNCHANGED channel
             ELSE /\ channel' = Append(channel,
                         SendMessage("Calling shutdown(" \o PyStr(sockfd)
                                     \o ", 2)"))
                  /\ jpc' = "call"
                  /\ UNCHANGED fault
    /\ UNCHANGED <<alive, modules, shutdown_func, probe, jresult>>
    /\ UNCHANGED <<parseVars, killVars, sessVars, exc, printed>>
    /\ UNCHANGED appVars

\* What shutdown(2) returns in the target: 0 for a descriptor that is an open
\* socket there, -1 otherwise.
NativeShutdown(s, open) == IF open /\ s >= 0 THEN 0 ELSE -1

\* Line 119: var result = shutdown(sockfd, 2).
CallNative ==
    /\ Running
    /\ jpc = "call"
    /\ \E throws \in BOOLEAN, open \in BOOLEAN :
          LET r == NativeShutdown(Val(sockfd), open)
          IN  /\ tcalls' = Append(tcalls,
                     [api |-> "shutdown", address |-> shutdown_func,
                      args |-> <<Val(sockfd), SHUT_RDWR>>, ok |-> ~throws])
              /\ IF throws
                 THEN /\ fault' = CallFault
                      /\ jpc' = "catch"
                      /\ UNCHANGED jresult
                 ELSE /\ jresult' = Some(r)
                      /\ jpc' = "report"
                      /\ UNCHANGED fault
    /\ UNCHANGED <<alive, modules, channel, shutdown_func, probe>>
    /\ UNCHANGED <<parseVars, killVars, sessVars, exc, printed>>
    /\ UNCHANGED appVars

\* Mutant of ReportResult: a missing errno facility is itself a fault.
ReportResultNeedsErrno(r, errno_func, errno_val) ==
    IF r = -1 /\ errno_func = None
    THEN <<SendMessage("Exception details: Error: " \o ExportFault),
           ReplyError("Frida script error: " \o ExportFault)>>
    ELSE <<IF r = -1
           THEN SendMessage("shutdown() returned -1, errno: "
                            \o IntToStr(errno_val))
           ELSE SendMessage("shutdown() succeeded with result: "
                            \o IntToStr(r)),
           ReplyValue(r)>>

\* Lines 121-136: what the payload sends once the native call returned r:
\* its diagnostic, then r as the value of the export.
ReportResult(r, errno_func, errno_val) ==
    <<IF r = -1
      THEN (IF errno_func # None
            THEN SendMessage("shutdown() returned -1, errno: "
                             \o IntToStr(errno_val))
            ELSE SendMessage("shutdown() returned -1"))
      ELSE SendMessage("shutdown() succeeded with result: " \o IntToStr(r)),
      ReplyValue(r)>>

\* What errno can be after a failed shutdown: EBADF.
ErrnoValues == {9}

\* Lines 121-136.
Report ==
    /\ Running
    /\ jpc = "report"
    /\ \E errno_val \in ErrnoValues :
          LET r == Val(jresult)
              errno_func == FindExportByName(modules, None, "__error")
          IN  /\ channel' = channel \o ReportResult(r, errno_func, errno_val)
              /\ tcalls' = IF r = -1
                           THEN Append(tcalls,
                                    [api |-> "findExportByName",
                                     module |-> None, symbol |-> "__error",
                                     ok |-> TRUE, found |-> errno_func])
                           ELSE tcalls
    /\ jpc' = "ready"
    /\ UNCHANGED <<alive, modules, shutdown_func, probe, jresult, fault>>
    /\ UNCHANGED <<parseVars, killVars, sessVars, exc, printed>>
    /\ UNCHANGED appVars

\* Mutant of PayloadCatch: the fault is reported as a diagnostic only, and
\* the export returns -1.
PayloadCatchSwallows(msg) ==
    <<SendMessage("Exception details: Error: " \o msg), ReplyValue(-1)>>

\* Lines 137-141: the outer catch: two diagnostics, then the fault goes to
\* the caller as the error of the export.
PayloadCatch(msg) ==
    <<SendMessage("Exception details: Error: " \o msg),
      SendMessage("Stack trace: Error: " \o msg \o "\n    at shutdownSocket"),
      ReplyError("Frida script error: " \o msg)>>

\* Lines 137-141.
Catch ==
    /\ Running
    /\ jpc = "catch"
    /\ channel' = channel \o PayloadCatch(fault)
    /\ jpc' = "ready"
    /\ UNCHANGED <<alive, modules, shutdown_func, probe, jresult, fault,
                   tcalls>>
    /\ UNCHANGED <<parseVars, killVars, sessVars, exc, printed>>
    /\ UNCHANGED appVars

----------------------------------------------------------------------------
\* The specifications.

\* Everything but the inputs, before any entry point is called.
\* Lines 353-370: the program reads its command line and rejects it through
\* parser.error, or calls tcp_kill.
CliMain ==
    /\ cpc = "start"
    /\ \E words \in CommandLines :
          /\ argv' = Some(words)
          /\ IF Rejection(words) # None
             THEN /\ printed' = printed
                                \o ArgParserError(Val(Rejection(words))).printed
                  /\ status' =
                        Some(ArgParserError(Val(Rejection(words))).status)
                  /\ cpc' = "exited"
                  /\ UNCHANGED kpc
             ELSE /\ cpc' = "tcp_kill"
                  /\ kpc' = "start"
                  /\ UNCHANGED <<printed, status>>
    /\ UNCHANGED <<platform, euid, verbose, kill_pid, kill_sockfd>>
    /\ UNCHANGED <<parseVars, sessVars, targetVars, payloadVars, exc>>
    /\ UNCHANGED <<opVars, guiVars, windowVars>>

\* Lines 369-372: tcp_kill returns and the confirmation is printed, the
\* program ending with status 0; or its exception reaches the interpreter,
\* which prints the traceback and ends the program with status 1.
CliExit ==
    /\ cpc = "tcp_kill"
    /\ kpc \in {"returned", "raised"}
    /\ IF kpc = "returned"
       THEN /\ printed' = Append(printed,
                                 "TCP connection was successfully shutdown.")
            /\ status' = Some(0)
       ELSE /\ printed' = Append(printed,
                                 "Traceback (most recent call last): "
                                 \o Val(exc).type)
            /\ status' = Some(1)
    /\ cpc' = "exited"
    /\ UNCHANGED argv
    /\ UNCHANGED <<parseVars, killVars, sessVars, targetVars, payloadVars,
                   exc>>
    /\ UNCHANGED <<opVars, guiVars, windowVars>>

----------------------------------------------------------------------------
\* The viewer (src/tcp_killer_gui.py).

MaxQueued == 2
MaxOperations == 2

\* Lines 320-322, 402: the key of a connection in connection_map.
ConnKey(c) ==
    PyStr(c.pid) \o "_" \o PyStr(c.fd) \o "_" \o IntToStr(c.local_port)
        \o "_" \o IntToStr(c.remote_port)

\* Lines 112-113, 314-315, 320-402: the table's connections and its
\* connection_map, in which a later row replaces an earlier row of the same
\* key.
TableOf(conns) ==
    [connections |-> conns,
     connection_map |->
         [k \in {ConnKey(conns[i]) : i \in 1..Len(conns)} |->
              conns[SetMax({i \in 1..Len(conns) : ConnKey(conns[i]) = k})]]]

\* What lsof prints when the viewer enumerates: two connections, of root
\* and of an ordinary user, or a line that cannot be parsed.
GuiOutputs == {Render(<<RecordA, RecordC>>, "pfu"), <<"px">>}

\* The module lists of the viewer's targets.
GuiModuleTables == {<<LinuxLibc>>}

\* Lines 59-61, 752: what _find_socket_fds(), without criteria, makes of
\* these outputs.
GuiEnumerations == {FindSocketFds(out, NoCriteria) : out \in GuiOutputs}

\* Mutant of WorkerScheduled: the worker's loop runs in the main thread, when
\* that thread is in its event loop.
WorkerScheduledOnMain(main) == main = "idle"

\* Lines 711-722: the worker is moved to a thread of its own, so its loop
\* runs whatever the main thread does.
WorkerScheduled(main) == TRUE

\* Lines 42-53: one turn of the worker's loop: enumerate, emit the list or
\* the error, and sleep for the interval. The signal is queued for the main
\* thread, in which the window lives.
MonitorPoll ==
    /\ wpc = "loop"
    /\ running
    /\ WorkerScheduled(gpc)
    /\ Len(events) < MaxQueued
    /\ \E found \in GuiEnumerations :
          events' = Append(events,
              IF found.raised = None
              THEN [signal |-> "connections_updated",
                    connections |-> found.connections]
              ELSE [signal |-> "error_occurred",
                    text |-> Val(found.raised)])
    /\ UNCHANGED <<gpc, running, table, status_bar, dialog, before,
                   refreshed>>
    /\ UNCHANGED <<parseVars, killVars, sessVars, targetVars, payloadVars, exc,
                   printed, cliVars, opVars, windowVars>>

\* Mutant of SkipsUpdate: the sender is not looked at.
SkipsUpdateAnySender(auto, sender) == ~auto

\* Line 792: "if not self.auto_refresh and self.sender() ==
\* self.monitor_worker".
SkipsUpdate(auto, sender) == ~auto /\ sender = "monitor_worker"

\* Lines 790-812: the window's update_connections(connections), called while
\* a signal of sender is handled, with no filter text entered: the table,
\* the count label and the status bar after it.
update_connections(conns, sender) ==
    IF SkipsUpdate(auto_refresh, sender)
    THEN [table |-> table, count_label |-> count_label,
          status_bar |-> status_bar]
    ELSE [table |-> TableOf(conns),
          count_label |-> "Connections: " \o IntToStr(Len(conns)),
          status_bar |-> "Last updated"]

\* Lines 790-812 and 952-954: the event loop of the main thread, the
\* window's or a message box's, hands the oldest queued signal of the worker
\* to its slot: update_connections or handle_error.
DispatchEvent ==
    /\ gpc \in {"idle", "dialog", "question"}
    /\ events # <<>>
    /\ IF Head(events).signal = "connections_updated"
       THEN LET after == update_connections(Head(events).connections,
                                            "monitor_worker")
            IN  /\ table' = after.table
                /\ count_label' = after.count_label
                /\ status_bar' = after.status_bar
                /\ skipped' = SkipsUpdate(auto_refresh, "monitor_worker")
       ELSE /\ status_bar' = "Error: " \o Head(events).text
            /\ UNCHANGED <<table, count_label, skipped>>
    /\ events' = Tail(events)
    /\ UNCHANGED <<gpc, running, dialog, before, refreshed>>
    /\ UNCHANGED <<auto_refresh, confirm_close, closing, reply, wpc>>
    /\ UNCHANGED <<parseVars, killVars, sessVars, targetVars, payloadVars, exc,
                   printed, cliVars, opVars>>

\* Lines 749-756: manual_refresh(), called while a signal of sender is
\* handled: the table, the count label and the status bar after it.
manual_refresh(found, sender) ==
    IF found.raised = None
    THEN [table |-> update_connections(found.connections, sender).table,
          count_label |->
              update_connections(found.connections, sender).count_label,
          status_bar |-> "Refreshed"]
    ELSE [table |-> table,
          count_label |-> count_label,
          status_bar |-> "Error: " \o Val(found.raised)]

\* Lines 480, 749-756: the Refresh button.
ManualRefresh ==
    /\ gpc = "idle"
    /\ \E found \in GuiEnumerations :
          LET after == manual_refresh(found, "refresh_btn")
          IN  /\ table' = after.table
              /\ count_label' = after.count_label
              /\ status_bar' = after.status_bar
    /\ UNCHANGED <<gpc, running, events, dialog, before, refreshed>>
    /\ UNCHANGED <<auto_refresh, confirm_close, closing, reply, skipped, wpc>>
    /\ UNCHANGED <<parseVars, killVars, sessVars, targetVars, payloadVars, exc,
                   printed, cliVars, opVars>>

\* Lines 490-492, 732-734: the Auto Refresh check box.
ToggleAutoRefresh ==
    /\ gpc = "idle"
    /\ auto_refresh' = ~auto_refresh
    /\ UNCHANGED <<confirm_close, count_label, closing, reply, skipped, wpc>>
    /\ UNCHANGED <<parseVars, killVars, sessVars, targetVars, payloadVars, exc,
                   printed, cliVars, opVars, guiVars>>

\* Lines 496-498, 736-738: the Confirm Close check box.
ToggleConfirmClose ==
    /\ gpc = "idle"
    /\ confirm_close' = ~confirm_close
    /\ UNCHANGED <<auto_refresh, count_label, closing, reply, skipped, wpc>>
    /\ UNCHANGED <<parseVars, killVars, sessVars, targetVars, payloadVars, exc,
                   printed, cliVars, opVars, guiVars>>

\* Mutant of Denied: nobody is turned away.
DeniedNever(e, owner) == FALSE

\* Line 933: "os.geteuid() != 0 and connection.uid != os.geteuid()", for the
\* effective user id e and the uid field of the connection.
Denied(e, owner) == e # 0 /\ owner # Some(e)

\* Lines 932-942: the permission test for the user id e, then either the
\* warning or the call _shutdown_sockfd(connection.pid, connection.fd,
\* verbose=True).
Proceed(connection, e) ==
    /\ euid' = IF euid = None THEN Some(e) ELSE euid
    /\ IF Denied(Val(euid'), connection.uid)
       THEN /\ dialog' = Some([icon |-> "warning",
                               title |-> "Permission Denied"])
            /\ gpc' = "dialog"
            /\ UNCHANGED <<spc, scaller, target_pid, sockfd, verbose>>
       ELSE /\ gpc' = "shutdown"
            /\ spc' = "attach"
            /\ scaller' = "gui"
            /\ target_pid' = connection.pid
            /\ sockfd' = connection.fd
            /\ verbose' = TRUE
            /\ dialog' = None

\* Lines 431-439 and 900-942: the close button of a row: close_connection
\* with the connection of that row: the question when confirm_close is set
\* (what ps says of the process only words it), otherwise straight on to the
\* permission test and the call.
CloseConnection ==
    /\ gpc = "idle"
    /\ spc = "idle"
    /\ operation <= MaxOperations
    /\ \E row \in 1..Len(table.connections), e \in Euids :
          LET connection ==
                  table.connection_map[ConnKey(table.connections[row])]
          IN  /\ closing' = Some(connection)
              /\ IF confirm_close
                 THEN /\ gpc' = "question"
                      /\ dialog' = Some([icon |-> "question",
                                         title |-> "Close Connection"])
                      /\ UNCHANGED <<euid, spc, scaller, target_pid, sockfd,
                                     verbose>>
                 ELSE Proceed(connection, e)
    /\ before' = Some([table |-> table, queued |-> Len(events)])
    /\ refreshed' = FALSE
    /\ reply' = None
    /\ UNCHANGED <<running, events, table, status_bar>>
    /\ UNCHANGED <<auto_refresh, confirm_close, count_label, skipped, wpc>>
    /\ UNCHANGED <<platform, kpc, kill_pid, kill_sockfd>>
    /\ UNCHANGED <<js_error, result, pending, listener, calls>>
    /\ UNCHANGED <<parseVars, targetVars, payloadVars, exc, printed, cliVars,
                   opVars>>

\* Mutant of Confirmed: any answer will do.
ConfirmedAny(answer) == TRUE

\* Line 929: "if reply != QMessageBox.StandardButton.Yes: return".
Confirmed(answer) == answer = "Yes"

\* Lines 917-930: the user answers the question, with one of its two
\* buttons (closing the box answers No): close_connection returns, or goes
\* on to the permission test and the call.
AnswerQuestion ==
    /\ gpc = "question"
    /\ \E answer \in {"Yes", "No"}, e \in Euids :
          /\ reply' = Some(answer)
          /\ IF Confirmed(answer)
             THEN /\ Proceed(Val(closing), e)
                  /\ UNCHANGED closing
             ELSE /\ gpc' = "idle"
                  /\ dialog' = None
                  /\ closing' = None
                  /\ UNCHANGED <<euid, spc, scaller, target_pid, sockfd,
                                 verbose>>
    /\ UNCHANGED <<running, events, table, status_bar, before, refreshed>>
    /\ UNCHANGED <<auto_refresh, confirm_close, count_label, skipped, wpc>>
    /\ UNCHANGED <<platform, kpc, kill_pid, kill_sockfd>>
    /\ UNCHANGED <<js_error, result, pending, listener, calls>>
    /\ UNCHANGED <<parseVars, targetVars, payloadVars, exc, printed, cliVars,
                   opVars>>

\* Mutant of RefreshAfter: the refresh is made however the call ended.
RefreshAfterAlways(ended) == TRUE

\* Lines 942-943: manual_refresh() follows the call inside the try block, so
\* it runs only when _shutdown_sockfd returned.
RefreshAfter(ended) == ended = "returned"

\* Lines 942-950: _shutdown_sockfd has ended: after a return the table is
\* refreshed; an exception is shown in a message box. The call's locals and
\* what it logged are gone, and the next operation starts afresh.
CloseReturns ==
    /\ gpc = "shutdown"
    /\ spc \in {"returned", "raised"}
    /\ refreshed' = RefreshAfter(spc)
    /\ IF RefreshAfter(spc)
       THEN \E found \in GuiEnumerations :
               LET after == manual_refresh(found, "table")
               IN  /\ table' = after.table
                   /\ count_label' = after.count_label
                   /\ status_bar' = after.status_bar
       ELSE UNCHANGED <<table, count_label, status_bar>>
    /\ IF spc = "raised"
       THEN /\ dialog' = Some([icon |-> "critical",
                               title |-> "Error",
                               text |-> "Failed to close connection:\n"
                                        \o Val(exc).msg])
            /\ gpc' = "dialog"
            /\ UNCHANGED closing
       ELSE /\ gpc' = "idle"
            /\ closing' = None
            /\ UNCHANGED dialog
    /\ operation' = operation + 1
    /\ session' = None
    /\ spc' = "idle" /\ scaller' = "none"
    /\ target_pid' = None /\ sockfd' = None
    /\ js_error' = None /\ result' = None /\ pending' = None
    /\ listener' = FALSE /\ calls' = <<>>
    /\ alive' = TRUE /\ modules' = <<>> /\ channel' = <<>>
    /\ jpc' = "none" /\ shutdown_func' = None /\ probe' = 0
    /\ jresult' = None /\ fault' = "" /\ tcalls' = <<>>
    /\ exc' = None /\ printed' = <<>>
    /\ UNCHANGED <<running, events, before, opened>>
    /\ UNCHANGED <<auto_refresh, confirm_close, reply, skipped, wpc>>
    /\ UNCHANGED <<parseVars, killVars, cliVars>>

\* The user dismisses the message box and close_connection returns to the
\* event loop.
DismissDialog ==
    /\ gpc = "dialog"
    /\ gpc' = "idle"
    /\ dialog' = None
    /\ closing' = None
    /\ UNCHANGED <<running, events, table, status_bar, before,
                   refreshed>>
    /\ UNCHANGED <<auto_refresh, confirm_close, count_label, reply, skipped,
                   wpc>>
    /\ UNCHANGED <<parseVars, killVars, sessVars, targetVars, payloadVars, exc,
                   printed, cliVars, opVars>>

\* The state of the module before anything is called.
Loaded ==
    /\ output = <<>> /\ returncode = 0 /\ li = 0
    /\ pid = None /\ fd = None /\ uid = None
    /\ connections = <<>> /\ origin = <<>>
    /\ euid = None /\ kill_pid = None /\ kill_sockfd = None
    /\ spc = "idle" /\ scaller = "none"
    /\ target_pid = None /\ sockfd = None
    /\ js_error = None /\ result = None /\ pending = None
    /\ listener = FALSE /\ calls = <<>>
    /\ alive = TRUE /\ modules = <<>> /\ channel = <<>>
    /\ jpc = "none" /\ shutdown_func = None /\ probe = 0
    /\ jresult = None /\ fault = "" /\ tcalls = <<>>
    /\ exc = None /\ printed = <<>>
    /\ argv = None /\ status = None
    /\ operation = 1 /\ session = None /\ opened = {}
    /\ events = <<>> /\ table = TableOf(<<>>)
    /\ status_bar = "" /\ dialog = None /\ before = None
    /\ refreshed = FALSE
    /\ auto_refresh = TRUE /\ confirm_close = FALSE
    /\ count_label = "Connections: 0"
    /\ closing = None /\ reply = None /\ skipped = FALSE

\* An entry point is about to be called from python, not from a program.
Idle ==
    /\ Loaded
    /\ cpc = "unused" /\ gpc = "unused" /\ running = FALSE /\ wpc = "none"

HasCriteria(c) ==
    /\ local_addr = c.local_addr /\ local_port = c.local_port
    /\ remote_addr = c.remote_addr /\ remote_port = c.remote_port

\* The operation: tcp_kill, or a direct call of _shutdown_sockfd.
Init ==
    /\ Idle
    /\ HasCriteria([local_addr |-> None, local_port |-> None,
                    remote_addr |-> None, remote_port |-> None])
    /\ platform \in Platforms
    /\ verbose = FALSE
    /\ kpc = "start" /\ ppc = "idle" /\ caller = "none"

Next ==
    \/ TcpKillStart
    \/ RunLsof(KillOutputs, {[returncode |-> 0, error |-> ""]})
    \/ ParseStep
    \/ ParseReturn
    \/ TcpKillSelect
    \/ CallShutdown
    \/ Attach
    \/ CreateScript
    \/ RegisterListener
    \/ Load
    \/ LoadReturns
    \/ Invoke
    \/ InvokeReturns
    \/ DeliverMessage
    \/ Detach
    \/ RaiseRecorded
    \/ TargetExit
    \/ LoadScript
    \/ Strategy1
    \/ Strategy2Probe
    \/ Strategy3
    \/ LinuxLookup
    \/ CheckResolved
    \/ Bind
    \/ CallNative
    \/ Report
    \/ Catch

Spec == Init /\ [][Next]_vars

\* The command-line program, from its start to its exit.
InitCli ==
    /\ Loaded
    /\ HasCriteria(NoCriteria)
    /\ platform \in Platforms
    /\ verbose = FALSE
    /\ cpc = "start"
    /\ gpc = "unused" /\ running = FALSE /\ wpc = "none"
    /\ kpc = "unused" /\ ppc = "idle" /\ caller = "none"

NextCli ==
    \/ CliMain
    \/ TcpKillStart
    \/ RunLsof(KillOutputs, {[returncode |-> 0, error |-> ""]})
    \/ ParseStep
    \/ ParseReturn
    \/ TcpKillSelect
    \/ Attach
    \/ CreateScript
    \/ RegisterListener
    \/ Load
    \/ LoadReturns
    \/ Invoke
    \/ InvokeReturns
    \/ DeliverMessage
    \/ Detach
    \/ RaiseRecorded
    \/ TargetExit
    \/ LoadScript
    \/ Strategy1
    \/ Strategy2Probe
    \/ Strategy3
    \/ LinuxLookup
    \/ CheckResolved
    \/ Bind
    \/ CallNative
    \/ Report
    \/ Catch
    \/ CliExit

SpecCli == InitCli /\ [][NextCli]_vars

\* The viewer, its window shown and its monitor started (lines 445-452,
\* 709-722, 1099-1102).
InitGui ==
    /\ Loaded
    /\ HasCriteria(NoCriteria)
    /\ platform = "Linux"
    /\ verbose = FALSE
    /\ cpc = "unused"
    /\ gpc = "idle" /\ running = TRUE /\ wpc = "loop"
    /\ kpc = "unused" /\ ppc = "idle" /\ caller = "none"

NextGui ==
    \/ MonitorPoll
    \/ DispatchEvent
    \/ ManualRefresh
    \/ CloseConnection
    \/ AttachTo(GuiModuleTables)
    \/ CreateScript
    \/ RegisterListener
    \/ Load
    \/ LoadReturns
    \/ Invoke
    \/ InvokeReturns
    \/ DeliverMessage
    \/ Detach
    \/ RaiseRecorded
    \/ TargetExit
    \/ LoadScript
    \/ LinuxLookup
    \/ CheckResolved
    \/ Bind
    \/ CallNative
    \/ Report
    \/ Catch
    \/ CloseReturns
    \/ DismissDialog

SpecGui == InitGui /\ [][NextGui]_vars

\* Lines 39-41, 719-722: the thread has started and calls start_monitoring,
\* which sets running before its loop.
WorkerStart ==
    /\ wpc = "started"
    /\ running' = TRUE
    /\ wpc' = "loop"
    /\ UNCHANGED <<gpc, events, table, status_bar, dialog, before, refreshed>>
    /\ UNCHANGED <<auto_refresh, confirm_close, count_label, closing, reply,
                   skipped>>
    /\ UNCHANGED <<parseVars, killVars, sessVars, targetVars, payloadVars, exc,
                   printed, cliVars, opVars>>

\* Lines 42, 49-53: the loop finds running false, in its sleep or at its
\* head, and start_monitoring returns to the thread, which enters its event
\* loop.
WorkerLeave ==
    /\ wpc = "loop"
    /\ ~running
    /\ wpc' = "exec"
    /\ UNCHANGED <<gpc, running, events, table, status_bar, dialog, before,
                   refreshed>>
    /\ UNCHANGED <<auto_refresh, confirm_close, count_label, closing, reply,
                   skipped>>
    /\ UNCHANGED <<parseVars, killVars, sessVars, targetVars, payloadVars, exc,
                   printed, cliVars, opVars>>

\* Lines 728-729: the thread's event loop ends once quit() was called, be it
\* before the loop was entered, and the thread ends with it.
ThreadFinish ==
    /\ wpc = "exec"
    /\ gpc \in {"wait", "closed"}
    /\ wpc' = "finished"
    /\ UNCHANGED <<gpc, running, events, table, status_bar, dialog, before,
                   refreshed>>
    /\ UNCHANGED <<auto_refresh, confirm_close, count_label, closing, reply,
                   skipped>>
    /\ UNCHANGED <<parseVars, killVars, sessVars, targetVars, payloadVars, exc,
                   printed, cliVars, opVars>>

\* Lines 55-57, 724-727, 1071-1073: the window is closed: closeEvent calls
\* stop_monitoring, which calls the worker's stop_monitoring in the main
\* thread.
CloseEvent ==
    /\ gpc = "idle"
    /\ running' = FALSE
    /\ gpc' = "quit"
    /\ UNCHANGED <<events, table, status_bar, dialog, before, refreshed>>
    /\ UNCHANGED windowVars
    /\ UNCHANGED <<parseVars, killVars, sessVars, targetVars, payloadVars, exc,
                   printed, cliVars, opVars>>

\* Lines 728-729: monitor_thread.quit().
QuitThread ==
    /\ gpc = "quit"
    /\ gpc' = "wait"
    /\ UNCHANGED <<running, events, table, status_bar, dialog, before,
                   refreshed>>
    /\ UNCHANGED windowVars
    /\ UNCHANGED <<parseVars, killVars, sessVars, targetVars, payloadVars, exc,
                   printed, cliVars, opVars>>

\* Lines 730, 1074: monitor_thread.wait() returns when the thread has ended,
\* and the close is accepted.
WaitReturns ==
    /\ gpc = "wait"
    /\ wpc = "finished"
    /\ gpc' = "closed"
    /\ UNCHANGED <<running, events, table, status_bar, dialog, before,
                   refreshed>>
    /\ UNCHANGED windowVars
    /\ UNCHANGED <<parseVars, killVars, sessVars, targetVars, payloadVars, exc,
                   printed, cliVars, opVars>>

\* The viewer from the start of its monitor thread (lines 445-452, 709-722:
\* start() was called and start_monitoring has yet to run in the thread) to
\* the close of its window.
InitStop ==
    /\ Loaded
    /\ HasCriteria(NoCriteria)
    /\ platform = "Linux"
    /\ verbose = FALSE
    /\ cpc = "unused"
    /\ gpc = "idle" /\ running = FALSE /\ wpc = "started"
    /\ kpc = "unused" /\ ppc = "idle" /\ caller = "none"

NextStop ==
    \/ WorkerStart
    \/ MonitorPoll
    \/ DispatchEvent
    \/ ManualRefresh
    \/ ToggleAutoRefresh
    \/ WorkerLeave
    \/ ThreadFinish
    \/ CloseEvent
    \/ QuitThread
    \/ WaitReturns

\* Both threads keep running: the worker thread takes its next step, and the
\* main thread goes on inside closeEvent and empties its queue. What the
\* user does (refresh, check box, closing the window) is under no
\* obligation.
SpecStop ==
    /\ InitStop
    /\ [][NextStop]_vars
    /\ WF_vars(WorkerStart)
    /\ WF_vars(MonitorPoll)
    /\ WF_vars(WorkerLeave)
    /\ WF_vars(ThreadFinish)
    /\ WF_vars(DispatchEvent)
    /\ WF_vars(QuitThread)
    /\ WF_vars(WaitReturns)

\* The viewer with its Auto Refresh check box in use, and targets that
\* outlive the call made on them.
NextAuto ==
    \/ MonitorPoll
    \/ DispatchEvent
    \/ ManualRefresh
    \/ CloseConnection
    \/ AttachTo(GuiModuleTables)
    \/ CreateScript
    \/ RegisterListener
    \/ Load
    \/ LoadReturns
    \/ Invoke
    \/ InvokeReturns
    \/ DeliverMessage
    \/ Detach
    \/ RaiseRecorded
    \/ LoadScript
    \/ LinuxLookup
    \/ CheckResolved
    \/ Bind
    \/ CallNative
    \/ Report
    \/ Catch
    \/ CloseReturns
    \/ DismissDialog
    \/ ToggleAutoRefresh

SpecAuto == InitGui /\ [][NextAuto]_vars

\* The viewer with its Confirm Close check box in use, and targets that
\* outlive the call made on them.
NextConfirm ==
    \/ MonitorPoll
    \/ DispatchEvent
    \/ ManualRefresh
    \/ CloseConnection
    \/ AttachTo(GuiModuleTables)
    \/ CreateScript
    \/ RegisterListener
    \/ Load
    \/ LoadReturns
    \/ Invoke
    \/ InvokeReturns
    \/ DeliverMessage
    \/ Detach
    \/ RaiseRecorded
    \/ LoadScript
    \/ LinuxLookup
    \/ CheckResolved
    \/ Bind
    \/ CallNative
    \/ Report
    \/ Catch
    \/ CloseReturns
    \/ DismissDialog
    \/ ToggleConfirmClose
    \/ AnswerQuestion

SpecConfirm == InitGui /\ [][NextConfirm]_vars

\* A direct call of _shutdown_sockfd on a Linux target whose script may
\* report an uncaught exception.
InitRelay ==
    /\ Idle
    /\ HasCriteria(NoCriteria)
    /\ platform = "Linux"
    /\ verbose = FALSE
    /\ kpc = "start" /\ ppc = "idle" /\ caller = "none"

NextRelay ==
    \/ CallShutdown
    \/ AttachTo(GuiModuleTables)
    \/ CreateScript
    \/ RegisterListener
    \/ Load
    \/ LoadReturns
    \/ Invoke
    \/ InvokeReturns
    \/ DeliverMessage
    \/ Detach
    \/ RaiseRecorded
    \/ TargetExit
    \/ LoadScript
    \/ ScriptError
    \/ LinuxLookup
    \/ CheckResolved
    \/ Bind
    \/ CallNative
    \/ Report
    \/ Catch

SpecRelay == InitRelay /\ [][NextRelay]_vars

\* _find_socket_fds alone, called directly, over every output of the bound.
InitParse ==
    /\ Idle
    /\ \E c \in CriteriaSet : HasCriteria(c)
    /\ platform = "Linux"
    /\ verbose = FALSE
    /\ kpc = "unused" /\ ppc = "lsof" /\ caller = "direct"

NextParse ==
    \/ RunLsof(Outputs, LsofExits)
    \/ ParseStep
    \/ ParseReturn

SpecParse == InitParse /\ [][NextParse]_vars

\* _find_socket_fds called directly on what lsof prints for an inventory of
\* up to MaxRecords connections, under every combination of criteria.
InitRecords ==
    /\ Idle
    /\ \E c \in CriteriaCombos : HasCriteria(c)
    /\ platform = "Linux"
    /\ verbose = FALSE
    /\ kpc = "unused" /\ ppc = "lsof" /\ caller = "direct"

NextRecords ==
    \/ RunLsof(RecordOutputs, {[returncode |-> 0, error |-> ""]})
    \/ ParseStep
    \/ ParseReturn

SpecRecords == InitRecords /\ [][NextRecords]_vars

\* _find_socket_fds() called directly on output that may hold a malformed
\* line.
InitMalformed ==
    /\ Idle
    /\ HasCriteria(NoCriteria)
    /\ platform = "Linux"
    /\ verbose = FALSE
    /\ kpc = "unused" /\ ppc = "lsof" /\ caller = "direct"

NextMalformed ==
    \/ RunLsof(MalformedOutputs, {[returncode |-> 0, error |-> ""]})
    \/ ParseStep
    \/ ParseReturn

SpecMalformed == InitMalformed /\ [][NextMalformed]_vars

----------------------------------------------------------------------------
\* Vocabulary of the properties.

\* Control has left _shutdown_sockfd.
Exited == spc \in {"returned", "raised"}

\* The backend's log holds a successful attach.
Attached == \E i \in 1..Len(calls) : calls[i].op = "attach" /\ calls[i].ok

\* The detach calls the backend saw.
Detaches == {i \in 1..Len(calls) : calls[i].op = "detach"}

\* The blocking call named call ended with item.
EndedWith(call, item) ==
    \E i \in 1..Len(calls) :
        /\ calls[i].op = "ended"
        /\ calls[i].call = call
        /\ calls[i].with = item

IsException(e, type) == e # None /\ Val(e).type = type

\* tcp_kill has gone past its selection of a record.
Selected == caller = "tcp_kill" /\ ppc = "returned" /\ kpc # "select"

----------------------------------------------------------------------------
\* C1: every successful attach of _shutdown_sockfd is followed by exactly one
\* detach before control leaves the function, on every exit path after the
\* attach (normal return, failure of create_script, of the listener
\* registration, of load, of the invocation).
C1_ExactlyOneDetach ==
    (Exited /\ Attached) => Cardinality(Detaches) = 1

\* C2: when the remote shutdown call returned -1, _shutdown_sockfd raises
\* RuntimeError; it never returns normally.
C2_FailureSurfaces ==
    (Exited /\ result = Some(-1)) => IsException(exc, "RuntimeError")

----------------------------------------------------------------------------
\* The tagged lines of kind tag ("p", "f" or "u") among lines from..to of out.
TaggedIn(out, from, to, tag) ==
    {j \in from..to : StartsWith(out[j], tag)}

\* The value of the last line of kind tag before line n of out.
LatestTagged(out, n, tag) ==
    LET js == TaggedIn(out, 1, n - 1, tag)
    IN  IF js = {} THEN None
        ELSE Some(IntOf(SubSeq(out[SetMax(js)], 2, Len(out[SetMax(js)]))))

\* The line of the emission before the k-th one (0: the start of the output).
PreviousEmission(k) == IF k = 1 THEN 0 ELSE origin[k - 1]

\* C3 as stated: a record is emitted on an endpoint-pair line only if a
\* process-id line, a descriptor line and a user-id line have all been seen
\* since the previously emitted record.
C3_FieldsSeenSinceEmission ==
    \A k \in 1..Len(connections) :
        \A tag \in {"p", "f", "u"} :
            TaggedIn(output, PreviousEmission(k) + 1, origin[k] - 1, tag) # {}

\* C3 as amended: every record emitted on an endpoint-pair line carries the
\* values of the most recent process-id, descriptor and user-id lines read so
\* far in the output (None for a kind not read yet), whether or not they were
\* read since the previous emission.
C3_FieldsAreLatestRead ==
    \A k \in 1..Len(connections) :
        /\ StartsWith(output[origin[k]], "n")
        /\ connections[k].pid = LatestTagged(output, origin[k], "p")
        /\ connections[k].fd = LatestTagged(output, origin[k], "f")
        /\ connections[k].uid = LatestTagged(output, origin[k], "u")

\* C3's case: a second record was emitted with a process id read before the
\* first one was emitted.
C3_Witness ==
    /\ Len(connections) >= 2
    /\ connections[2].pid # None
    /\ TaggedIn(output, origin[1] + 1, origin[2] - 1, "p") = {}

----------------------------------------------------------------------------
\* C4: for every non-empty enumeration result whose first record r1 has a
\* descriptor >= 0, tcp_kill does not raise the connection-not-found error and
\* passes r1's process id and r1's descriptor to the injection step.
C4_ActsOnFirstRecord ==
    (/\ Selected
     /\ Len(connections) >= 1
     /\ connections[1].fd # None
     /\ Val(connections[1].fd) >= 0)
    => /\ ~IsException(exc, "OSError")
       /\ target_pid = connections[1].pid
       /\ sockfd = connections[1].fd

\* C5: when enumeration yields no record, tcp_kill raises OSError, whose text
\* holds the hint to run as root exactly when the effective user id is not 0.
C5_NotFoundByPrivilege ==
    (Selected /\ connections = <<>>)
    => /\ kpc = "raised"
       /\ IsException(exc, "OSError")
       /\ Cardinality(Detaches) = 0 /\ ~Attached
       /\ euid # None
       /\ Contains(Val(exc).msg, "Socket not found")
       /\ Contains(Val(exc).msg, "Try running as root") <=> Val(euid) # 0

\* C5's case: no record, an unprivileged caller, the hint in the text.
C5_Witness ==
    /\ Selected /\ connections = <<>>
    /\ euid = Some(501)
    /\ IsException(exc, "OSError")
    /\ Contains(Val(exc).msg, "Try running as root")

----------------------------------------------------------------------------
\* C6: when load or the invocation ends with the channel-closed transport
\* condition, _shutdown_sockfd detaches and returns normally.
C6_ClosedChannelIsSuccess ==
    (/\ Exited
     /\ \/ EndedWith("load", TransportEvent(ConnectionClosed))
        \/ EndedWith("invoke", TransportEvent(ConnectionClosed)))
    => /\ spc = "returned"
       /\ exc = None
       /\ Cardinality(Detaches) = 1

\* C6's case: the target exited during the invocation and the function
\* returned.
C6_Witness ==
    /\ spc = "returned"
    /\ ~alive
    /\ EndedWith("invoke", TransportEvent(ConnectionClosed))

----------------------------------------------------------------------------
\* What the try statement of _shutdown_sockfd settled, read off the backend's
\* log: a transport error with another text goes on to the caller; otherwise
\* a recorded error becomes a RuntimeError; otherwise the function returns.
TryOutcome ==
    IF \E i \in 1..Len(calls) :
           /\ calls[i].op = "ended"
           /\ calls[i].with.kind = "transport"
           /\ calls[i].with.text # ConnectionClosed
    THEN Exception("TransportError", ConnectionReset)
    ELSE IF js_error # None THEN Exception("RuntimeError", Val(js_error))
    ELSE None

\* C7: a failure of detach after the target terminated is swallowed: it is
\* not raised, and the outcome reported is the one the try statement settled.
C7_DetachFailureSwallowed ==
    (/\ spc \in {"check", "returned", "raised"}
     /\ \E i \in Detaches : ~calls[i].ok)
    => /\ spc = "check" => exc = None
       /\ Exited => exc = TryOutcome

\* C7's case: detach failed and the function has ended.
C7_Witness ==
    /\ Exited
    /\ ~alive
    /\ \E i \in Detaches : ~calls[i].ok

----------------------------------------------------------------------------
\* The error reply the payload's catch clause makes of a fault.
Relayed(msg) == ReplyError("Frida script error: " \o msg)

\* C8: every fault raised inside shutdownSocket is caught inside the payload
\* and relayed as the error of the export; the controller that receives it
\* raises RuntimeError with the relayed description, after detaching.
C8_FaultsAreRelayed ==
    /\ (fault # "" /\ jpc = "ready")
       => \/ \E k \in 1..Len(channel) : channel[k] = Relayed(fault)
          \/ EndedWith("invoke", Relayed(fault))
    /\ (Exited /\ fault # "" /\ EndedWith("invoke", Relayed(fault)))
       => /\ exc = Exception("RuntimeError", "Frida script error: " \o fault)
          /\ Cardinality(Detaches) = 1

\* C8's case: the native call faulted and the controller raised.
C8_Witness ==
    /\ Exited
    /\ fault = CallFault
    /\ EndedWith("invoke", Relayed(CallFault))
    /\ IsException(exc, "RuntimeError")

----------------------------------------------------------------------------
\* The addresses at which a loaded module exports shutdown.
ShutdownAddresses ==
    {Address(i, "shutdown") :
        i \in {j \in 1..Len(modules) : "shutdown" \in modules[j].exports}}

\* The payload's bindings and native calls.
NativeUses ==
    {i \in 1..Len(tcalls) : tcalls[i].api \in {"NativeFunction", "shutdown"}}

\* C9: the native shutdown function is never bound or called with a null or
\* guessed address; when no strategy yields an address, shutdownSocket aborts
\* with the resolution error before the native callable is created, and makes
\* no shutdown call.
C9_NoNullBinding ==
    /\ \A i \in NativeUses :
          /\ tcalls[i].address # None
          /\ Val(tcalls[i].address) \in ShutdownAddresses
    /\ shutdown_func = None => jpc \notin {"bind", "call", "report"}
    /\ (shutdown_func = None /\ fault # "")
       => /\ NativeUses = {}
          /\ fault \in {"Could not find shutdown function in target process",
                        ApiFault}

\* C9's case: on macOS the three strategies found nothing and the payload
\* aborted.
C9_Witness ==
    /\ platform = "Darwin"
    /\ shutdown_func = None
    /\ fault = "Could not find shutdown function in target process"
    /\ \E i \in 1..Len(tcalls) : tcalls[i].api = "getModuleByName"
    /\ jpc = "ready"

----------------------------------------------------------------------------
\* The strategy an entry of the payload's log belongs to (0: none).
Stage(e) ==
    IF e.api = "enumerateMatchesSync" THEN 1
    ELSE IF e.api = "findExportByName" /\ e.symbol = "shutdown" THEN 2
    ELSE IF e.api \in {"getModuleByName", "getExportByName"} THEN 3
    ELSE 0

IsAttempt(e) == Stage(e) # 0

\* The resolution attempts, in the order made.
Attempts == SelectSeq(tcalls, IsAttempt)

\* C10: on macOS the strategies are attempted in the order 1, 2, 3; a later
\* attempt is made only if every earlier one produced no address; the address
\* used is that of the first attempt that succeeded; strategy 3 comes after
\* strategy 1 and all four probes of strategy 2.
C10_LadderOrder ==
    platform = "Darwin" =>
    LET R == Attempts
    IN  /\ R # <<>> => Stage(R[1]) = 1
        /\ \A i, j \in 1..Len(R) :
              i < j => /\ Stage(R[i]) <= Stage(R[j])
                       /\ R[i].found = None
        /\ \A j \in 1..Len(R) :
              Stage(R[j]) = 3
              => /\ Cardinality({i \in 1..j : Stage(R[i]) = 1}) = 1
                 /\ Cardinality({i \in 1..j : Stage(R[i]) = 2})
                      = Len(possibleModules)
        /\ (R # <<>> /\ R[Len(R)].found # None)
           => shutdown_func = R[Len(R)].found
        /\ jpc \in {"bind", "call", "report"}
           => R # <<>> /\ shutdown_func = R[Len(R)].found

\* C10's case: strategies 1 and 2 found nothing, strategy 3 did, and the
\* payload went on to bind its address.
C10_Witness ==
    /\ platform = "Darwin"
    /\ jpc = "call"
    /\ Attempts # <<>>
    /\ Attempts[Len(Attempts)].api = "getExportByName"
    /\ Attempts[Len(Attempts)].found = shutdown_func

----------------------------------------------------------------------------
\* The loaded modules that export shutdown.
Candidates == {i \in 1..Len(modules) : "shutdown" \in modules[i].exports}

\* Those of them whose path holds a recognized system-library substring.
SystemCandidates ==
    {i \in Candidates : \E sub \in {"libsystem", "libc", "System"} :
                            Contains(modules[i].path, sub)}

\* The export enumerations of strategy 1 that returned.
Enumerations ==
    {i \in 1..Len(tcalls) :
        tcalls[i].api = "enumerateMatchesSync" /\ tcalls[i].ok}

\* C11 as stated: strategy 1 selects an export named shutdown whenever at
\* least one loaded module exports it, one with a system-library path if
\* there is such a candidate and otherwise still one of the candidates.
C11_SelectsWheneverExported ==
    \A i \in Enumerations :
        Candidates # {}
        => /\ tcalls[i].found # None
           /\ Val(tcalls[i].found) \in
                 {Address(j, "shutdown") :
                     j \in IF SystemCandidates # {} THEN SystemCandidates
                           ELSE Candidates}

\* C11 as amended: strategy 1 selects an export named shutdown exactly when
\* the enumeration reports, with its path, a candidate whose module path
\* holds a recognized system-library substring, and then it selects such a
\* candidate; candidates in other modules are never selected by strategy 1.
C11_SelectsSystemOnly ==
    \A i \in Enumerations :
        /\ tcalls[i].found # None
           <=> (tcalls[i].paths /\ SystemCandidates # {})
        /\ tcalls[i].found # None
           => Val(tcalls[i].found) \in
                 {Address(j, "shutdown") : j \in SystemCandidates}

\* C11's case: the first candidate is in an application library, a later one
\* in a system library, and strategy 1 selected the later one.
C11_Witness ==
    /\ modules = <<AppLibrary, SystemKernel>>
    /\ \E i \in Enumerations :
          tcalls[i].found = Some(Address(2, "shutdown"))

----------------------------------------------------------------------------
IsProbe(e) == Stage(e) = 2

\* The probes of strategy 2, in the order made.
Probes == SelectSeq(tcalls, IsProbe)

\* C12: on macOS strategy 2 probes libsystem_kernel.dylib, libsystem_c.dylib,
\* libc.dylib and then the unscoped lookup, in that order; it stops at the
\* first probe that returns an address, so the unscoped lookup is made only
\* after the three named libraries gave nothing.
C12_ProbeOrder ==
    platform = "Darwin" =>
    LET order == <<Some("libsystem_kernel.dylib"), Some("libsystem_c.dylib"),
                   Some("libc.dylib"), None>>
        P == Probes
    IN  /\ Len(P) <= Len(order)
        /\ \A j \in 1..Len(P) :
              /\ P[j].module = order[j]
              /\ j < Len(P) => P[j].found = None
              /\ P[j].found # None
                 => /\ shutdown_func = P[j].found
                    /\ jpc \notin {"s2", "s3"}

\* C12's case: the three named libraries gave nothing and the unscoped
\* lookup, made fourth, returned the address.
C12_Witness ==
    /\ platform = "Darwin"
    /\ Len(Probes) = 4
    /\ Probes[4].module = None
    /\ Probes[4].found # None
    /\ shutdown_func = Probes[4].found

----------------------------------------------------------------------------
\* The loaded modules named libc.so.6 that export shutdown.
LibcExports ==
    {i \in 1..Len(modules) :
        modules[i].name = "libc.so.6" /\ "shutdown" \in modules[i].exports}

\* C13: on Linux the address is the export shutdown of libc.so.6 whenever
\* that export exists; the unscoped lookup is made, and its result used, only
\* when the libc.so.6 lookup returned nothing; no macOS strategy is attempted.
C13_LinuxLookup ==
    platform = "Linux" =>
    LET R == Attempts
    IN  /\ Len(R) <= 2
        /\ \A j \in 1..Len(R) : R[j].api = "findExportByName"
        /\ R # <<>> => R[1].module = Some("libc.so.6")
        /\ Len(R) = 2 => /\ R[2].module = None
                         /\ R[1].ok /\ R[1].found = None
                         /\ LibcExports = {}
                         /\ shutdown_func = R[2].found
        /\ (R # <<>> /\ R[1].ok /\ LibcExports # {})
           => /\ Len(R) = 1
              /\ shutdown_func = Some(Address(SetMin(LibcExports), "shutdown"))

\* C13's case: libc.so.6 is loaded after another module that exports
\* shutdown, and the payload goes on with the address in libc.so.6.
C13_Witness ==
    /\ platform = "Linux"
    /\ modules = <<AppLibrary, LinuxLibc>>
    /\ jpc = "call"
    /\ shutdown_func = Some(Address(2, "shutdown"))

----------------------------------------------------------------------------
\* The native shutdown calls the payload made.
ShutdownCalls == {i \in 1..Len(tcalls) : tcalls[i].api = "shutdown"}

\* C14: every native shutdown call has the descriptor given to
\* _shutdown_sockfd as its first argument and 2 as its second; when tcp_kill
\* made the call, that descriptor is the fd of the first record of the
\* enumeration and the process attached to is that record's pid.
C14_DescriptorAndHow ==
    /\ \A i \in ShutdownCalls :
          /\ sockfd # None
          /\ tcalls[i].args = <<Val(sockfd), 2>>
          /\ \E j \in 1..Len(calls) :
                /\ calls[j].op = "invoke"
                /\ calls[j].sockfd = sockfd
    /\ scaller = "tcp_kill"
       => /\ connections # <<>>
          /\ sockfd = connections[1].fd
          /\ target_pid = connections[1].pid
          /\ \A j \in 1..Len(calls) :
                calls[j].op = "attach" => calls[j].pid = connections[1].pid

\* C14's case: the enumeration gave two records and the native call was made
\* with the first one's descriptor, in the first one's process.
C14_Witness ==
    /\ scaller = "tcp_kill"
    /\ Len(connections) = 2
    /\ connections[1].fd # connections[2].fd
    /\ \E i \in ShutdownCalls :
          tcalls[i].args = <<Val(connections[1].fd), SHUT_RDWR>>
    /\ \E j \in 1..Len(calls) :
          calls[j].op = "attach" /\ calls[j].ok
          /\ calls[j].pid = connections[1].pid

----------------------------------------------------------------------------
\* No loaded module exports __error.
NoErrnoFacility ==
    \A i \in 1..Len(modules) : "__error" \notin modules[i].exports

\* The payload takes the step that follows the native call's return.
Reports == jpc = "report" /\ jpc' # "report"

\* C15: when the shutdown call returned -1 and __error cannot be found, the
\* payload raises no fault: it sends the plain diagnostic and returns -1, the
\* result it returns when the facility is present.
C15_MissingErrnoIsNoFault ==
    [][/\ (Reports /\ jresult = Some(-1) /\ NoErrnoFacility)
          => /\ jpc' = "ready"
             /\ fault' = ""
             /\ channel' = channel \o <<SendMessage("shutdown() returned -1"),
                                        ReplyValue(-1)>>
       /\ (Reports /\ jresult = Some(-1) /\ ~NoErrnoFacility)
          => /\ jpc' = "ready"
             /\ fault' = ""
             /\ Len(channel') = Len(channel) + 2
             /\ channel'[Len(channel')] = ReplyValue(-1)]_vars

\* C15's case: __error was looked up and not found, and the controller
\* received -1 as the value of the export.
C15_Witness ==
    /\ NoErrnoFacility
    /\ \E i \in 1..Len(tcalls) :
          /\ tcalls[i].api = "findExportByName"
          /\ tcalls[i].symbol = "__error"
          /\ tcalls[i].found = None
    /\ EndedWith("invoke", ReplyValue(-1))
    /\ fault = ""

----------------------------------------------------------------------------
\* The calls of kind op in the backend's log.
CallsOf(op) == {i \in 1..Len(calls) : calls[i].op = op}

\* The oldest item of the channel is a message and it leaves the channel.
MessageLeaves ==
    /\ channel # <<>>
    /\ Head(channel).kind = "message"
    /\ channel' = Tail(channel)

\* C16: the listener is registered on the script before load and before the
\* invocation are issued, so the target sends a message only while a listener
\* is registered, and a message that leaves the channel is handed to
\* on_message.
C16_ListenerBeforeLoad ==
    /\ [](/\ \A i \in CallsOf("load") \cup CallsOf("invoke") :
                \E j \in CallsOf("on") : j < i
          /\ spc \in {"load", "load_wait", "invoke", "invoke_wait"}
             => listener
          /\ (\E k \in 1..Len(channel) : channel[k].kind = "message")
             => listener)
    /\ [][MessageLeaves
          => /\ listener
             /\ js_error' = on_message(Head(channel)).js_error
             /\ printed' = on_message(Head(channel)).printed]_vars

\* C16's case: a message the payload sent during the invocation was handed
\* to the listener, which printed it.
C16_Witness ==
    /\ listener
    /\ \E k \in 1..Len(printed) :
          StartsWith(printed[k], "[Frida] Calling shutdown(")

----------------------------------------------------------------------------
\* Record r satisfies every criterion that is given.
Satisfies(r) ==
    /\ local_addr = None \/ Some(r.local_ip) = local_addr
    /\ local_port = None \/ Some(r.local_port) = local_port
    /\ remote_addr = None \/ Some(r.remote_ip) = remote_addr
    /\ remote_port = None \/ Some(r.remote_port) = remote_port

\* _find_socket_fds has returned its list.
Returned == ppc = "returned"

\* C17: for every inventory output and every combination of the four
\* criteria, _find_socket_fds(criteria) returns the records of
\* _find_socket_fds() that satisfy every given criterion, in the same order;
\* with no criteria it returns all of them.
C17_FilterIsConjunctive ==
    /\ ppc # "raised"
    /\ Returned
       => LET all == FindSocketFds(output, NoCriteria)
          IN  /\ all.raised = None
              /\ connections = SelectSeq(all.connections, Satisfies)
              /\ Criteria = NoCriteria => connections = all.connections

\* C17's case: two criteria are given, the inventory holds a record that
\* satisfies both and one that satisfies only the first, and the first alone
\* is returned.
C17_Witness ==
    /\ Returned
    /\ local_addr # None /\ remote_addr # None
    /\ FindSocketFds(output, NoCriteria).connections = <<RecordD, RecordA>>
    /\ connections = <<RecordA>>

----------------------------------------------------------------------------
\* C18: for a well-formed inventory output (for each connection its
\* process-id, descriptor and user-id lines in either order, then its
\* endpoint-pair line; also with the p and u lines given once per process),
\* _find_socket_fds() returns one record per endpoint-pair line, with the
\* fields of that connection, in the order of the lines: none added, dropped,
\* duplicated or reordered.
C18_ParseReconstructs ==
    /\ ppc # "raised"
    /\ (Returned /\ Criteria = NoCriteria)
       => \A q \in Inventories, layout \in Layouts :
             output = Render(q, layout) => connections = q

\* C18's case: two connections of different processes, returned in the order
\* printed.
C18_Witness ==
    /\ Returned
    /\ Criteria = NoCriteria
    /\ output = Render(<<RecordC, RecordA>>, "pfu")
    /\ connections = <<RecordC, RecordA>>

----------------------------------------------------------------------------
\* The endpoint-pair lines of the output.
EndpointLines == {j \in 1..Len(output) : StartsWith(output[j], "n")}

\* C19: each side of an endpoint pair is split at its last ':': the port is
\* the integer after it and the address everything before it, so the record
\* of a line, put together again as address ':' port on each side, is the
\* line, also when the address holds ':' itself (an IPv6 literal, bracketed
\* or not); no such line fails to parse.
C19_SplitAtLastColon ==
    /\ ppc # "raised"
    /\ \A k \in 1..Len(connections) :
          /\ output[origin[k]] = EndpointText(connections[k])
          /\ connections[k].local_port \in Nat
          /\ connections[k].remote_port \in Nat
    /\ (Returned /\ Criteria = NoCriteria)
       => \A j \in EndpointLines : \E k \in 1..Len(origin) : origin[k] = j

\* C19's case: a bracketed and an unbracketed IPv6 endpoint were both read.
C19_Witness ==
    /\ Returned
    /\ Len(connections) = 2
    /\ connections[1].local_ip = "fe80::1"
    /\ connections[1].local_port = 8080
    /\ connections[2].remote_ip = "[::2]"
    /\ connections[2].remote_port = 443

----------------------------------------------------------------------------
\* An address text in canonical form has no brackets around it.
Bracketed(a) == StartsWith(a, "[") \/ (Len(a) > 0 /\ Char(a, Len(a)) = "]")

\* C20: every record produced by the enumeration has both ports in 0..65535
\* and both addresses in canonical textual form, without brackets.
C20_CanonicalRecords ==
    \A k \in 1..Len(connections) :
        /\ connections[k].local_port \in 0..65535
        /\ connections[k].remote_port \in 0..65535
        /\ ~Bracketed(connections[k].local_ip)
        /\ ~Bracketed(connections[k].remote_ip)

----------------------------------------------------------------------------
\* C21: when lsof exits with a non-zero status, _find_socket_fds prints a
\* diagnostic and parses the output all the same: it returns the records it
\* returns for that output with a zero status, and the status makes it raise
\* nothing.
C21_NonZeroExitStillParses ==
    returncode # 0
    => /\ printed = <<"lsof command exited with error: lsof: status error">>
       /\ ppc \in {"loop", "returned", "raised"}
       /\ Returned
          => /\ FindSocketFds(output, Criteria).raised = None
             /\ connections = FindSocketFds(output, Criteria).connections
       /\ ppc = "raised" => FindSocketFds(output, Criteria).raised # None

\* C21's case: lsof failed after printing two connections, and both are
\* returned.
C21_Witness ==
    /\ returncode # 0
    /\ Returned
    /\ Len(connections) = 2
    /\ printed # <<>>

----------------------------------------------------------------------------
\* The text after the last ':' of side is no integer, or side has no ':'.
BadPort(side) ==
    \/ ~Contains(side, ":")
    \/ ~IsInt(SubSeq(side, SetMax(Occurrences(side, ":")) + 1, Len(side)))

\* The line cannot be parsed: a p, f or u line whose value is no integer, an
\* n line that has not exactly one "->", or one with a side that has no
\* integer after a ':'.
IsMalformed(line) ==
    LET rest == SubSeq(line, 2, Len(line))
        arrows == Occurrences(rest, "->")
    IN  IF \E tag \in {"p", "f", "u"} : StartsWith(line, tag)
        THEN ~IsInt(rest)
        ELSE /\ StartsWith(line, "n")
             /\ \/ Cardinality(arrows) # 1
                \/ BadPort(SubSeq(rest, 1, SetMin(arrows) - 1))
                \/ BadPort(SubSeq(rest, SetMin(arrows) + 2, Len(rest)))

----------------------------------------------------------------------------
\* The attach calls the backend saw.
Attaches == CallsOf("attach")

\* C23: when attach fails, _shutdown_sockfd has made exactly one attach
\* attempt, the failure has reached the caller at once, and there is no
\* create_script, no listener, no load, no invocation and no detach.
C23_AttachFailureSurfaces ==
    (\E i \in Attaches : ~calls[i].ok)
    => /\ calls = <<[op |-> "attach", pid |-> target_pid, ok |-> FALSE]>>
       /\ spc = "raised"
       /\ exc # None
       /\ Val(exc).type \in {"TypeError", "ProcessNotFoundError",
                             "PermissionDeniedError"}
       /\ scaller = "tcp_kill" => kpc = "raised"
       /\ jpc = "none" /\ tcalls = <<>>
       /\ ~listener

\* C23's case: tcp_kill's attach was denied and the denial left tcp_kill.
C23_Witness ==
    /\ scaller = "tcp_kill"
    /\ kpc = "raised"
    /\ IsException(exc, "PermissionDeniedError")
    /\ Len(calls) = 1

----------------------------------------------------------------------------
\* C24: a session goes attach, load, invocation, detach: the load is issued
\* only on a session that attached, the invocation only after the load
\* returned, and a detach is the last call the session ever sees.
C24_SessionStateMachine ==
    /\ \A i \in 1..Len(calls) : calls[i].op = "attach" => i = 1
    /\ \A i \in CallsOf("load") : calls[1].op = "attach" /\ calls[1].ok
    /\ \A i \in CallsOf("invoke") :
          \E j \in 1..(i - 1) :
              /\ calls[j].op = "ended" /\ calls[j].call = "load"
              /\ calls[j].with.kind = "reply" /\ calls[j].with.ok
    /\ \A d \in Detaches : d = Len(calls)
    /\ Detaches # {} => spc \in {"check", "returned", "raised"}

\* C24's case: a session that was attached, loaded, invoked and detached.
C24_Witness ==
    /\ Exited
    /\ Cardinality(CallsOf("load")) = 1
    /\ Cardinality(CallsOf("invoke")) = 1
    /\ Cardinality(Detaches) = 1

----------------------------------------------------------------------------
\* C26: on a platform that is neither Darwin nor Linux, tcp_kill raises
\* NotImplementedError: lsof is not run and no attach is attempted.
C26_UnsupportedPlatform ==
    (platform \notin {"Darwin", "Linux"} /\ kpc # "start")
    => /\ kpc = "raised"
       /\ IsException(exc, "NotImplementedError")
       /\ ppc = "idle" /\ output = <<>> /\ connections = <<>>
       /\ spc = "idle" /\ calls = <<>>
       /\ printed = <<>>

\* C26's case: tcp_kill was called on Windows.
C26_Witness ==
    /\ platform = "Windows"
    /\ kpc = "raised"
    /\ local_port # None

----------------------------------------------------------------------------
\* C27: when lsof yields a record, attach and load succeed, the remote
\* shutdown returns 0 and no error message was relayed, tcp_kill returns
\* without an exception and detach was called once on the session.
C27_HappyPath ==
    (/\ scaller = "tcp_kill"
     /\ Exited
     /\ EndedWith("invoke", ReplyValue(0))
     /\ js_error = None)
    => /\ exc = None
       /\ spc = "returned"
       /\ kpc = "returned"
       /\ Cardinality(Detaches) = 1
       /\ result = Some(0)

\* C27's case: tcp_kill went through and returned.
C27_Witness ==
    /\ scaller = "tcp_kill"
    /\ kpc = "returned"
    /\ EndedWith("invoke", ReplyValue(0))
    /\ Len(connections) >= 1

----------------------------------------------------------------------------
\* C28: the command-line program exits with status 0 only when tcp_kill
\* completed and the confirmation was printed; every error outcome, a command
\* line rejected by the parser included, exits with a non-zero status.
C28_ExitStatusTellsSuccess ==
    status = Some(0)
    => /\ kpc = "returned"
       /\ printed # <<>>
       /\ printed[Len(printed)] = "TCP connection was successfully shutdown."

----------------------------------------------------------------------------
\* _shutdown_sockfd holds a session: it is between a successful attach and
\* its exit.
HoldsSession ==
    spc \in {"create_script", "on", "load", "load_wait", "invoke",
             "invoke_wait", "finally", "check"}

\* C25: every _shutdown_sockfd operation opens a new session of its own and
\* issues at most one invocation on it; no session belongs to two operations,
\* the operations the viewer starts for different connections included.
C25_OwnSessionPerOperation ==
    /\ \A p, q \in opened : p[1] = q[1] => p[2] = q[2]
    /\ \A p, q \in opened : p[2] = q[2] => p[1] = q[1]
    /\ \A p \in opened : p[2] <= operation
    /\ session # None => <<Val(session), operation>> \in opened
    /\ HoldsSession => session # None
    /\ Cardinality(Attaches) <= 1
    /\ Cardinality(CallsOf("invoke")) <= 1

\* C25's case: the viewer's second operation, closing a connection of
\* process 8, has issued its invocation on the second session, the first
\* operation having had the first.
C25_Witness ==
    /\ operation = 2
    /\ opened = {<<1, 1>>, <<2, 2>>}
    /\ session = Some(2)
    /\ spc = "invoke_wait"
    /\ target_pid = Some(8)

----------------------------------------------------------------------------
\* C29: in the viewer the polling loop and the invocation run in different
\* threads: while a _shutdown_sockfd started by close_connection is in
\* progress, the worker can make its next enumeration whatever the call is
\* doing; an enumeration made meanwhile queues its signal and touches nothing
\* of the call, and no step of the call stops or empties the worker's side.
C29_MonitorNotBlocked ==
    /\ []((gpc = "shutdown" /\ Len(events) < MaxQueued)
          => ENABLED MonitorPoll)
    /\ [][(gpc = "shutdown" /\ events' # events)
          => /\ Len(events') = Len(events) + 1
             /\ UNCHANGED <<gpc, table, sessVars, targetVars, payloadVars,
                            exc>>]_vars
    /\ [][(gpc = "shutdown" /\ spc' # spc)
          => UNCHANGED <<running, events>>]_vars

\* C29's case: the invocation is still awaited, and the worker has made two
\* enumerations since the close was requested.
C29_Witness ==
    /\ gpc = "shutdown"
    /\ spc = "invoke_wait"
    /\ Len(events) = Val(before).queued + 2

----------------------------------------------------------------------------
\* C30: when _shutdown_sockfd raises inside close_connection, the error is
\* shown in a message box and close_connection changes nothing else: from the
\* request to the message box the table's connections and connection_map are
\* those of the request, the status bar is left alone and manual_refresh is
\* not called.
C30_FailedCloseChangesNothing ==
    /\ [](gpc = "shutdown" => (table = Val(before).table /\ ~refreshed))
    /\ [][(gpc = "shutdown" /\ spc = "raised" /\ gpc' # "shutdown")
          => /\ gpc' = "dialog"
             /\ dialog' # None
             /\ Val(dialog').icon = "critical"
             /\ table' = Val(before').table
             /\ ~refreshed'
             /\ UNCHANGED <<table, status_bar, events, running, euid,
                            before>>]_vars

\* C30's case: a close of a listed connection failed and its error is on
\* screen, the table being the table of the request.
C30_Witness ==
    /\ gpc = "dialog"
    /\ dialog # None
    /\ Val(dialog).icon = "critical"
    /\ table.connections # <<>>
    /\ table = Val(before).table
    /\ ~refreshed

----------------------------------------------------------------------------
\* C31: whenever _shutdown_sockfd returns normally or raises its RuntimeError,
\* the detach of the session has been attempted before: the final check of
\* the recorded error comes only after the finally clause.
C31_DetachBeforeOutcome ==
    /\ spc = "check" => (Detaches # {} /\ pending = None)
    /\ (Exited /\ (spc = "returned" \/ IsException(exc, "RuntimeError")))
       => /\ Detaches # {}
          /\ calls[Len(calls)].op = "detach"
          /\ spc = "raised" => exc = Exception("RuntimeError", Val(js_error))

\* C31's case: a recorded error was raised as RuntimeError, the session
\* detached before.
C31_Witness ==
    /\ spc = "raised"
    /\ IsException(exc, "RuntimeError")
    /\ Cardinality(Detaches) = 1
    /\ CallsOf("invoke") # {}

----------------------------------------------------------------------------
\* The script reported an uncaught exception and the message has left the
\* channel: the listener received it.
ErrorReceived ==
    /\ \E i \in 1..Len(tcalls) : tcalls[i].api = "uncaught"
    /\ \A k \in 1..Len(channel) : channel[k] # ErrorMessage(UncaughtError)

\* The step appends to the backend's log the failure, with a description, of
\* load or of the invocation.
EndsWithFailure ==
    /\ Len(calls') = Len(calls) + 1
    /\ calls'[Len(calls')].op = "ended"
    /\ calls'[Len(calls')].with.kind = "reply"
    /\ ~calls'[Len(calls')].with.ok

\* C32 as stated: once the listener has received a message of type "error",
\* _shutdown_sockfd raises RuntimeError with the description recorded last,
\* after detaching.
C32_RelayedErrorAlwaysRaised ==
    (Exited /\ ErrorReceived)
    => /\ Detaches # {}
       /\ exc = Exception("RuntimeError", Val(js_error))

\* C32 as amended: once the listener has received a message of type "error",
\* _shutdown_sockfd detaches and then raises: the TransportError that ended
\* load or the invocation when its text is not "the connection is closed",
\* and otherwise RuntimeError with the description recorded last, be it the
\* message's or that of a later exception of load or the invocation; a
\* result or the channel-closed condition does not clear the record.
C32_RelayedErrorRaisedUnlessTransport ==
    /\ []((Exited /\ ErrorReceived)
          => /\ Detaches # {}
             /\ js_error # None
             /\ exc = TryOutcome)
    /\ [][/\ (MessageLeaves /\ Head(channel).type = "error")
             => js_error' = Some(Head(channel).description)
          /\ EndsWithFailure
             => js_error' = Some(calls'[Len(calls')].with.description)
          /\ js_error # None => js_error' # None]_vars

\* C32's case: the invocation returned 0, the listener had received the
\* error message, and RuntimeError carries its description.
C32_Witness ==
    /\ Exited
    /\ ErrorReceived
    /\ EndedWith("invoke", ReplyValue(0))
    /\ exc = Exception("RuntimeError", UncaughtError)

----------------------------------------------------------------------------
\* The entries of the backend's log at which load or the invocation ended
\* with a transport error that is not the channel-closed condition.
TransportFailures ==
    {i \in CallsOf("ended") :
        /\ calls[i].with.kind = "transport"
        /\ calls[i].with.text # ConnectionClosed}

\* Those at which it ended with an exception of another type.
OtherFailures ==
    {i \in CallsOf("ended") :
        calls[i].with.kind = "reply" /\ ~calls[i].with.ok}

\* C33: a transport error that ends load or the invocation with a text other
\* than "the connection is closed" reaches the caller unchanged, as
\* TransportError and after the detach; an exception of any other type reaches
\* the caller as RuntimeError carrying its text.
C33_TransportErrorReRaised ==
    /\ \A i \in TransportFailures :
          /\ js_error = None
          /\ Exited
             => /\ exc = Exception("TransportError", calls[i].with.text)
                /\ calls[Len(calls)].op = "detach"
          /\ spc \notin {"check", "returned"}
    /\ \A i \in OtherFailures :
          /\ js_error = Some(calls[i].with.description)
          /\ Exited
             => /\ exc = Exception("RuntimeError",
                                   calls[i].with.description)
                /\ calls[Len(calls)].op = "detach"

\* C33's case: the invocation ended with a connection reset, which left
\* _shutdown_sockfd as it was, after the one detach.
C33_Witness ==
    /\ spc = "raised"
    /\ EndedWith("invoke", TransportEvent(ConnectionReset))
    /\ exc = Exception("TransportError", ConnectionReset)
    /\ Cardinality(Detaches) = 1

----------------------------------------------------------------------------
\* C34: tcp_kill attaches only after the platform check passed and the
\* enumeration returned a record that it selected; a run that ends with the
\* unsupported-platform or the connection-not-found error has made no attach,
\* load or invocation.
C34_AttachOnlyAfterSelection ==
    /\ scaller = "tcp_kill" /\ spc # "idle"
       => /\ Supported(platform)
          /\ ppc = "returned"
          /\ Len(connections) > 0
          /\ target_pid = connections[1].pid
          /\ sockfd = connections[1].fd
          /\ Truthy(sockfd)
    /\ kpc \notin {"unused", "shutdown", "returned", "raised"}
       => spc = "idle" /\ calls = <<>>
    /\ /\ kpc = "raised"
       /\ \/ IsException(exc, "NotImplementedError")
          \/ IsException(exc, "OSError")
       => spc = "idle" /\ calls = <<>> /\ jpc = "none"

\* C34's case: tcp_kill attached to the process of the record it selected.
C34_Witness ==
    /\ scaller = "tcp_kill"
    /\ Attaches # {}
    /\ Len(connections) > 0
    /\ target_pid = connections[1].pid

\* C34's other case: the enumeration found nothing and tcp_kill ended with
\* the connection-not-found error.
C34_WitnessNotFound ==
    /\ kpc = "raised"
    /\ IsException(exc, "OSError")
    /\ connections = <<>>

----------------------------------------------------------------------------
\* The steps of the macOS ladder that threw: the export enumeration, a probe
\* of strategy 2, or the module lookup (or export lookup) of strategy 3.
LadderFaults == {i \in 1..Len(tcalls) : Stage(tcalls[i]) # 0 /\ ~tcalls[i].ok}

\* What the ladder does after step i, which was of stage 1 or 2 and gave no
\* address: the next step made, or the stage the script is at.
GoesOn(i) ==
    LET probes == Cardinality({k \in 1..i : Stage(tcalls[k]) = 2})
        another == probes < Len(possibleModules)
    IN  IF i < Len(tcalls)
        THEN IF another
             THEN /\ Stage(tcalls[i + 1]) = 2
                  /\ tcalls[i + 1].module = possibleModules[probes + 1]
             ELSE tcalls[i + 1].api = "getModuleByName"
        ELSE jpc = IF another THEN "s2" ELSE "s3"

\* C35: on macOS a fault thrown inside one resolution strategy stays in it:
\* the ladder goes on with the remaining probes and the later strategies, the
\* fault never reaches the outer catch, and resolution fails only when no
\* step yielded an address.
C35_FaultContained ==
    platform = "Darwin" =>
    /\ \A i \in LadderFaults :
          /\ Stage(tcalls[i]) \in {1, 2} => GoesOn(i)
          /\ Stage(tcalls[i]) = 3 => jpc \notin {"entry", "s2", "s3"}
    /\ fault \notin {ApiFault, ModuleFault, ExportFault}
    /\ fault = "Could not find shutdown function in target process"
       => /\ \A i \in 1..Len(tcalls) :
                Stage(tcalls[i]) # 0 => tcalls[i].found = None
          /\ Len(Probes) = Len(possibleModules)
          /\ \E i \in 1..Len(tcalls) : tcalls[i].api = "getModuleByName"

\* C35's case: the enumeration threw, the first probe threw, and a later
\* probe still gave the address that was bound.
C35_Witness ==
    /\ platform = "Darwin"
    /\ Len(tcalls) >= 3
    /\ tcalls[1].api = "enumerateMatchesSync" /\ ~tcalls[1].ok
    /\ Stage(tcalls[2]) = 2 /\ ~tcalls[2].ok
    /\ \E i \in 3..Len(tcalls) :
          /\ Stage(tcalls[i]) = 2 /\ tcalls[i].found # None
    /\ jpc = "bind"

\* C35's other case: the module lookup of strategy 3 threw after everything
\* before it gave nothing, and the resolution failed.
C35_WitnessFails ==
    /\ platform = "Darwin"
    /\ \E i \in LadderFaults : tcalls[i].api = "getModuleByName"
    /\ fault = "Could not find shutdown function in target process"

----------------------------------------------------------------------------
\* The permission warning is on screen.
PermissionDenied ==
    dialog = Some([icon |-> "warning", title |-> "Permission Denied"])

\* C38: in the viewer, when the caller is not root and the connection
\* belongs to another user, close_connection shows the permission warning,
\* does not call _shutdown_sockfd (nothing is attached to) and makes no
\* refresh; the call is made only for root or for the owner.
C38_PermissionGate ==
    /\ PermissionDenied
       => /\ Val(euid) # 0 /\ Val(closing).uid # euid
          /\ spc = "idle" /\ scaller = "none"
          /\ calls = <<>> /\ session = None
          /\ ~refreshed
    /\ gpc = "shutdown"
       => Val(euid) = 0 \/ Val(closing).uid = euid
    /\ /\ closing # None /\ gpc # "question"
       /\ Val(euid) # 0 /\ Val(closing).uid # euid
       => PermissionDenied

\* C38's case: an ordinary user asked to close a connection of root and got
\* the warning, with nothing attached to.
C38_Witness ==
    /\ PermissionDenied
    /\ Val(euid) # 0
    /\ Val(closing).uid = Some(0)
    /\ Attaches = {}

----------------------------------------------------------------------------
\* A step in which the main thread hands a list of the worker to the slot.
WorkerDelivery ==
    /\ events # <<>>
    /\ Head(events).signal = "connections_updated"
    /\ events' = Tail(events)

\* The table and the count label show a fresh enumeration.
ShowsFresh ==
    \E found \in GuiEnumerations :
        /\ found.raised = None
        /\ table' = TableOf(found.connections)
        /\ count_label' = "Connections: " \o IntToStr(Len(found.connections))

\* C37: while auto_refresh is off, a list delivered by the monitor worker
\* leaves the table, its connection_map and the count label as they are; a
\* manual refresh, and the refresh after a close that succeeded, still put
\* the fresh enumeration in the table.
C37_AutoRefreshOff ==
    [][/\ WorkerDelivery /\ ~auto_refresh
          => UNCHANGED <<table, count_label>>
       /\ ManualRefresh /\ status_bar' = "Refreshed" => ShowsFresh
       /\ CloseReturns /\ spc = "returned" /\ status_bar' = "Refreshed"
          => ShowsFresh]_vars

\* C37's case: with auto_refresh off the worker's list was delivered and
\* skipped, and the table still is the empty one the window started with.
C37_Witness ==
    /\ ~auto_refresh
    /\ skipped
    /\ events = <<>>
    /\ table = TableOf(<<>>)
    /\ count_label = "Connections: 0"

\* C37's other case: with auto_refresh off, and the worker's last list
\* skipped, the table shows what the refresh after a close put in it.
C37_WitnessRefresh ==
    /\ ~auto_refresh
    /\ skipped
    /\ refreshed
    /\ table.connections # <<>>
    /\ status_bar = "Refreshed"

----------------------------------------------------------------------------
\* C39: in the viewer, with the confirmation on, any answer but Yes ends
\* close_connection with no call of _shutdown_sockfd and no refresh; with
\* the confirmation off the call is made without the question.
C39_ConfirmGate ==
    /\ reply = Some("No")
       => /\ gpc # "shutdown" /\ spc = "idle"
          /\ calls = <<>> /\ session = None
          /\ ~refreshed
          /\ closing = None
    /\ gpc = "shutdown"
       => reply = IF confirm_close THEN Some("Yes") ELSE None
    /\ gpc = "question"
       => confirm_close /\ reply = None /\ spc = "idle"

\* C39's case: the question was answered No and close_connection returned
\* to the event loop, the table as it was when the button was pressed.
C39_Witness ==
    /\ reply = Some("No")
    /\ gpc = "idle"
    /\ confirm_close
    /\ Attaches = {}
    /\ before # None /\ Val(before).table = table

\* C39's other case: with the confirmation off the call is under way and no
\* question was asked.
C39_WitnessUnasked ==
    /\ gpc = "shutdown"
    /\ ~confirm_close
    /\ reply = None
    /\ Attaches # {}

----------------------------------------------------------------------------
\* C36: once the window's stop_monitoring was called, the worker's loop ends
\* and the wait on the monitor thread returns, however the stop interleaves
\* with the start of start_monitoring in the worker thread.
C36_StopTerminates ==
    gpc \in {"quit", "wait"} ~> (wpc = "finished" /\ gpc = "closed")

\* The same for a stop that finds the worker inside its loop: running was
\* set by the worker before the stop cleared it.
C36_StopInsideLoopTerminates ==
    (gpc \in {"quit", "wait"} /\ wpc = "loop" /\ ~running)
        ~> (wpc = "finished" /\ gpc = "closed")

\* The stop came before the worker set running: the worker is in its loop
\* with running set, and the main thread is inside wait().
C36_StopLost ==
    /\ gpc = "wait"
    /\ wpc = "loop"
    /\ running

====
